---- MODULE Spec2Model ----
(***************************************************************************)
(* Model of the document session and enrichment layer of browser-notepad   *)
(* (the third revision in src/unnamed/part_000, lines 1234-2337):          *)
(* StorageManager, HistoryManager, TabManager and SectionManager.          *)
(*                                                                         *)
(* Texts, keys and ids are TLA+ strings, so that lengths, concatenations   *)
(* and emptiness tests are computed as the JavaScript computes them.       *)
(***************************************************************************)
EXTENDS Integers, Sequences, FiniteSets, TLC

VARIABLES
    \* ---- a HistoryManager on its own (SpecHistory, SpecHistoryFull)
    hm,             \* the HistoryManager object: past, future, current, isNavigating
    hmQualified,    \* observer: every call so far was a pushState whose length delta exceeds 5
    hmCalls,        \* observer: number of pushState calls made (capped by MaxPushes)
    hmEvicted,      \* observer: some pushState has shifted the oldest entry out of past
    hmRet           \* observer: what the last undo/redo returned

VARIABLES
    \* ---- StorageManager (static fields) and the browser's localStorage
    pendingWrites,  \* StorageManager.pendingWrites: key -> queued value
    writeTimeout,   \* StorageManager.writeTimeout: TRUE while the 100 ms timer is scheduled
    localStorage,   \* the durable store: key -> string
    \* ---- TabManager and the editor
    tabs,           \* TabManager.tabs: sequence of [id, title]
    tabElements,    \* the .tab elements: for each, the position in tabs of the tab object
                    \* its rename handler captured (0: an object no longer in tabs)
    tabHistories,   \* TabManager.tabHistories: id -> HistoryManager
    currentTabIndex,\* TabManager.currentTabIndex (0-based, -1: none)
    noteText,       \* noteElement.innerText
    inputTimer,     \* TRUE while NoteApp.debouncedInputHandler's 500 ms timer is scheduled
    now,            \* Date.now() at the latest createNewTab
    \* ---- SectionManager, TranslationManager and the enrichment panels
    currentNoteId,  \* SectionManager.currentNoteId
    activeSection,  \* SectionManager.activeSection
    currentSectionElement, \* SectionManager.currentSectionElement (the section of that element)
    translationManager,    \* TRUE once SectionManager.translationManager is set
    language,       \* translationLanguageSelect.value
    panel,          \* innerText of the .ai-note element of every section
    apiCache,       \* SectionManager.apiCache: cache key -> result
    pollingTimeout, \* SectionManager.pollingTimeout: the latest polling timer handle
    timers,         \* the polling timers that are scheduled and have not fired
    calls,          \* the asynchronous calls under way: digests, POSTs and status reads
    runs,           \* number of handleAiWrite calls that reached the digest
    statusReads,    \* observer: for every run, the status reads issued for its job
    done            \* observer: the runs whose job completed: operation, note, language,
                    \* content, and the number of runs started by then

VARIABLES
    \* ---- observers of the sessions that are driven by a script
    edits,          \* the texts the debounced input handler saved and the undo and
                    \* redo calls made, in the order they happened
    storeLog        \* the saveToLocalStorage and removeFromLocalStorage calls made
                    \* since the 100 ms timer last fired, in the order they happened

hvars == <<hm, hmQualified, hmCalls, hmEvicted, hmRet>>

svars == <<pendingWrites, writeTimeout, localStorage, tabs, tabElements, tabHistories,
           currentTabIndex, noteText, inputTimer, now, currentNoteId, activeSection,
           currentSectionElement, translationManager, language, panel,
           apiCache, pollingTimeout, timers, calls, runs, statusReads, done>>

ovars == <<edits, storeLog>>

vars == <<hm, hmQualified, hmCalls, hmEvicted, hmRet, edits, storeLog,
          pendingWrites, writeTimeout, localStorage, tabs, tabElements, tabHistories,
          currentTabIndex, noteText, inputTimer, now, currentNoteId, activeSection,
          currentSectionElement, translationManager, language, panel,
          apiCache, pollingTimeout, timers, calls, runs, statusReads, done>>

----------------------------------------------------------------------------
(* Values shared by all components *)

\* JavaScript's null (and undefined), kept apart from every text the model uses
Null == "null"

Abs(n) == IF n < 0 THEN -n ELSE n

\* the one element of the set S.  The({e : x \in {v}}) is e with x standing
\* for v; a handler's statements are chained this way and read from the
\* innermost binding (the first statement) outwards to e (the last one)
The(S) == CHOOSE r \in S : TRUE

----------------------------------------------------------------------------
(* HistoryManager: part_000 lines 1294-1341 *)

\* this.maxHistorySize = 50
maxHistorySize == 50

\* constructor()
HistoryManager_new ==
    [past |-> <<>>, future |-> <<>>, current |-> "", isNavigating |-> FALSE]

\* the condition of the if at lines 1309-1310: the old current is recorded
HistoryManager_records(h, newState) ==
    /\ h.current # ""
    /\ h.current # newState
    /\ Abs(Len(h.current) - Len(newState)) > 5

\* pushState without the shift of line 1314 (past grows without bound)
HistoryManager_pushState_noShift(h, newState) ==
    IF h.isNavigating
    THEN [h EXCEPT !.isNavigating = FALSE]
    ELSE [h EXCEPT !.past = IF HistoryManager_records(h, newState)
                            THEN Append(h.past, h.current) ELSE h.past,
                   !.current = newState,
                   !.future = <<>>]

\* pushState that records every change of the text, whatever its length
HistoryManager_pushState_recordsAll(h, newState) ==
    IF h.isNavigating
    THEN [h EXCEPT !.isNavigating = FALSE]
    ELSE [h EXCEPT !.past = IF h.current # "" /\ h.current # newState
                            THEN Append(h.past, h.current) ELSE h.past,
                   !.current = newState,
                   !.future = <<>>]

\* pushState without the test of isNavigating: every call is processed
HistoryManager_pushState_noSuppress(h, newState) ==
    [h EXCEPT !.past = IF HistoryManager_records(h, newState)
                       THEN Append(h.past, h.current) ELSE h.past,
              !.current = newState,
              !.future = <<>>,
              !.isNavigating = FALSE]

\* pushState that leaves future as it is
HistoryManager_pushState_keepsFuture(h, newState) ==
    IF h.isNavigating
    THEN [h EXCEPT !.isNavigating = FALSE]
    ELSE [h EXCEPT !.past = IF HistoryManager_records(h, newState)
                            THEN Append(h.past, h.current) ELSE h.past,
                   !.current = newState]

\* pushState(newState)
HistoryManager_pushState(h, newState) ==
    IF h.isNavigating
    THEN [h EXCEPT !.isNavigating = FALSE]
    ELSE LET pushed == IF HistoryManager_records(h, newState)
                       THEN Append(h.past, h.current) ELSE h.past
             kept   == IF Len(pushed) > maxHistorySize THEN Tail(pushed) ELSE pushed
         IN  [h EXCEPT !.past = kept, !.current = newState, !.future = <<>>]

\* undo that forgets to put current onto future
HistoryManager_undo_dropsCurrent(h) ==
    IF Len(h.past) > 0
    THEN [h   |-> [h EXCEPT !.isNavigating = TRUE,
                            !.current = h.past[Len(h.past)],
                            !.past = SubSeq(h.past, 1, Len(h.past) - 1)],
          ret |-> h.past[Len(h.past)]]
    ELSE [h |-> h, ret |-> Null]

\* undo(): the object afterwards and the returned value
HistoryManager_undo(h) ==
    IF Len(h.past) > 0
    THEN [h   |-> [h EXCEPT !.isNavigating = TRUE,
                            !.future = <<h.current>> \o h.future,
                            !.current = h.past[Len(h.past)],
                            !.past = SubSeq(h.past, 1, Len(h.past) - 1)],
          ret |-> h.past[Len(h.past)]]
    ELSE [h |-> h, ret |-> Null]

\* redo that sets isNavigating before it looks at future
HistoryManager_redo_alwaysFlags(h) ==
    IF Len(h.future) > 0
    THEN [h   |-> [h EXCEPT !.isNavigating = TRUE,
                            !.past = Append(h.past, h.current),
                            !.current = Head(h.future),
                            !.future = Tail(h.future)],
          ret |-> Head(h.future)]
    ELSE [h |-> [h EXCEPT !.isNavigating = TRUE], ret |-> Null]

\* redo that leaves the returned state on future
HistoryManager_redo_keepsFuture(h) ==
    IF Len(h.future) > 0
    THEN [h   |-> [h EXCEPT !.isNavigating = TRUE,
                            !.past = Append(h.past, h.current),
                            !.current = Head(h.future)],
          ret |-> Head(h.future)]
    ELSE [h |-> h, ret |-> Null]

\* redo(): the object afterwards and the returned value
HistoryManager_redo(h) ==
    IF Len(h.future) > 0
    THEN [h   |-> [h EXCEPT !.isNavigating = TRUE,
                            !.past = Append(h.past, h.current),
                            !.current = Head(h.future),
                            !.future = Tail(h.future)],
          ret |-> Head(h.future)]
    ELSE [h |-> h, ret |-> Null]

----------------------------------------------------------------------------
(* JavaScript values kept in the store.  A value is tagged with its type:    *)
(* pendingWrites holds what the caller passed (a string, the JSON string of *)
(* the tab list, or a number), localStorage holds strings only.             *)

Str(t) == [str |-> t]
Num(n) == [num |-> n]
\* the string JSON.stringify(t); JSON.parse gives t back
Json(t) == [json |-> t]
JsNull == [null |-> TRUE]

IsStr(v) == "str" \in DOMAIN v
IsNum(v) == "num" \in DOMAIN v
IsJson(v) == "json" \in DOMAIN v

\* the conversion to string that localStorage.setItem applies to its value
ToStr(v) == IF IsNum(v) THEN Str(ToString(v.num)) ELSE v

\* JavaScript truthiness, as used by ||, if (...) and !
Truthy(v) ==
    IF IsStr(v) THEN v.str # ""
    ELSE IF IsNum(v) THEN v.num # 0
    ELSE IsJson(v)

\* the numbers the model can meet as a tab index
IndexRange == -1 .. 8

\* parseInt of a stored value: the number whose decimal form it is, else NaN (JsNull)
ParseInt(v) ==
    IF IsNum(v) THEN v
    ELSE IF IsStr(v) /\ \E n \in IndexRange : ToString(n) = v.str
         THEN Num(CHOOSE n \in IndexRange : ToString(n) = v.str)
         ELSE JsNull

\* String.prototype.trim() on the texts the model uses
Trim(t) ==
    CASE t = "  " -> ""
      [] t = " Ideas " -> "Ideas"
      [] OTHER -> t

EmptyMap == [k \in {} |-> JsNull]
MapPut(f, k, v) == [x \in DOMAIN f \cup {k} |-> IF x = k THEN v ELSE f[x]]
MapDel(f, k) == [x \in DOMAIN f \ {k} |-> f[x]]

----------------------------------------------------------------------------
(* StorageManager: part_000 lines 1256-1291.  Every operation takes the     *)
(* program state s (a record of the variables plus threw, which is TRUE     *)
(* once an exception has ended the running handler) and gives the state    *)
(* after it.                                                                *)

\* saveToLocalStorage that keeps the value queued first for a key
StorageManager_saveToLocalStorage_keepsFirst(s, key, value) ==
    IF key \in DOMAIN s.pendingWrites
    THEN [s EXCEPT !.writeTimeout = TRUE]
    ELSE [s EXCEPT !.pendingWrites = MapPut(@, key, value), !.writeTimeout = TRUE]

\* saveToLocalStorage that clears a scheduled timer and sets no new one
StorageManager_saveToLocalStorage_clearsOnly(s, key, value) ==
    [s EXCEPT !.pendingWrites = MapPut(@, key, value),
              !.writeTimeout = ~s.writeTimeout]

\* saveToLocalStorage(key, value)
StorageManager_saveToLocalStorage(s, key, value) ==
    [s EXCEPT !.pendingWrites = MapPut(@, key, value), !.writeTimeout = TRUE]

\* flushWrites()
StorageManager_flushWrites(s) ==
    [s EXCEPT !.localStorage =
                  [k \in DOMAIN s.localStorage \cup DOMAIN s.pendingWrites |->
                      IF k \in DOMAIN s.pendingWrites
                      THEN ToStr(s.pendingWrites[k]) ELSE s.localStorage[k]],
              !.pendingWrites = EmptyMap,
              !.writeTimeout = FALSE]

\* the localStorage.setItem calls flushWrites makes (lines 1273-1275): one
\* for every entry of the pendingWrites Map
StorageManager_flushWrites_setItems(s) ==
    {[key |-> k, value |-> ToStr(s.pendingWrites[k])] : k \in DOMAIN s.pendingWrites}

\* flushWrites() when localStorage.setItem throws for the entry of key (the
\* quota is exceeded, for instance): the entries that forEach visited before
\* it are stored, and lines 1276-1277 are not reached, so the Map keeps its
\* entries.  pendingWrites here does not keep the insertion order of the
\* Map, so written, the keys visited before key, is any set of other keys.
\* The timer has fired and is not scheduled any more; the handle left in
\* this.writeTimeout is stale, and clearing it has no effect.
StorageManager_flushWrites_throws(s, key, written) ==
    [s EXCEPT !.localStorage =
                  [k \in DOMAIN s.localStorage \cup written |->
                      IF k \in written
                      THEN ToStr(s.pendingWrites[k]) ELSE s.localStorage[k]],
              !.writeTimeout = FALSE,
              !.threw = TRUE]

\* getFromLocalStorage(key, defaultValue)
StorageManager_getFromLocalStorage(s, key, defaultValue) ==
    IF key \in DOMAIN s.pendingWrites THEN s.pendingWrites[key]
    ELSE IF key \in DOMAIN s.localStorage /\ Truthy(s.localStorage[key])
         THEN s.localStorage[key]
         ELSE defaultValue

\* removeFromLocalStorage that leaves the queued write in place
StorageManager_removeFromLocalStorage_keepsPending(s, key) ==
    [s EXCEPT !.localStorage = MapDel(@, key)]

\* removeFromLocalStorage that leaves the durable entry in place
StorageManager_removeFromLocalStorage_keepsDurable(s, key) ==
    [s EXCEPT !.pendingWrites = MapDel(@, key)]

\* removeFromLocalStorage(key)
StorageManager_removeFromLocalStorage(s, key) ==
    [s EXCEPT !.pendingWrites = MapDel(@, key), !.localStorage = MapDel(@, key)]

----------------------------------------------------------------------------
(* SectionManager, the synchronous part: part_000 lines 1954-1977 and      *)
(* 2134-2170.  setContent(element, text) is taken by its effect on the      *)
(* element: its innerText becomes text.                                     *)

\* the section list of closeTab (line 1526); every section has one .ai-note element
Sections == <<"summary", "translation", "grammar", "rewriting", "keywords">>
SectionSet == {Sections[i] : i \in 1..Len(Sections)}

\* the key computed at lines 2137-2141 and 2150-2154
SectionManager_key(s, section) ==
    IF section = "translation" /\ s.translationManager
    THEN s.currentNoteId \o "-" \o section \o "-" \o s.language
    ELSE s.currentNoteId \o "-" \o section

\* setContent(element, newText)
SectionManager_setContent(s, element, newText) ==
    [s EXCEPT !.panel[element] = newText]

\* saveSectionContent()
SectionManager_saveSectionContent(s) ==
    IF s.currentNoteId = Null \/ s.currentSectionElement = Null \/ s.activeSection = Null
    THEN s
    ELSE StorageManager_saveToLocalStorage(s,
             SectionManager_key(s, s.activeSection),
             Str(s.panel[s.currentSectionElement]))

\* loadSectionContent(section)
SectionManager_loadSectionContent(s, section) ==
    IF s.currentNoteId = Null \/ section = Null
    THEN s
    ELSE IF section \in SectionSet
         THEN SectionManager_setContent(s, section,
                  StorageManager_getFromLocalStorage(s,
                      SectionManager_key(s, section), Str("")).str)
         ELSE s

\* setNoteId that reads the status of the outstanding jobs for the new note
SectionManager_setNoteId_polls(s, noteId) ==
    The({SectionManager_loadSectionContent(s1, s1.activeSection) :
        s1 \in {[s EXCEPT !.currentNoteId = noteId,
                          !.calls = @ \cup {[call EXCEPT !.doc = noteId] :
                                                call \in {c \in s.calls : c.kind = "get"}}]}})

\* setNoteId(noteId)
SectionManager_setNoteId(s, noteId) ==
    The({SectionManager_loadSectionContent(s1, s1.activeSection) :
        s1 \in {[s EXCEPT !.currentNoteId = noteId]}})

\* switchSection(section)
SectionManager_switchSection(s, section) ==
    IF section \notin SectionSet
    THEN [s EXCEPT !.activeSection = section]
    ELSE The({SectionManager_loadSectionContent(s1, section) :
        s1 \in {[s EXCEPT !.activeSection = section, !.currentSectionElement = section]}})

----------------------------------------------------------------------------
(* SectionManager, the enrichment run: part_000 lines 1943-1952 and        *)
(* 1979-2092.  handleAiWrite and pollForStatus are asynchronous: each is   *)
(* cut at its awaits (the digest, the POST, every status read) and at the   *)
(* polling timer, and other handlers run between the pieces.                *)

\* const maxRetries = 10 (line 2047)
maxRetries == 10

EmptyCache == [k \in {} |-> ""]

\* an asynchronous call under way, or a scheduled polling timer, with what
\* its continuation holds: the trimmed note text, the cache key, the retry
\* count.  run numbers the handleAiWrite call (and stands for the status
\* url of its job); op is the section whose endpoint the POST went to; doc
\* and lang record the note id and the selected language at that moment.
Call(kind, run, content, cacheKey, op, doc, lang, retries) ==
    [kind |-> kind, run |-> run, content |-> content, cacheKey |-> cacheKey,
     op |-> op, doc |-> doc, lang |-> lang, retries |-> retries]

\* pollingTimeout before any timer was scheduled (null)
NoHandle == Call("timer", 0, "", "", Null, Null, "", 0)

\* the first 16 hex digits of the SHA-256 digest of content: one fixed
\* string per content
Hash16(content) == "sha(" \o content \o ")"

\* generateCacheKey(content), the part after the digest (lines 1950-1951)
SectionManager_generateCacheKey(s, content) ==
    s.activeSection \o "-" \o s.currentNoteId \o "-" \o Hash16(content) \o "-"
        \o (IF s.activeSection = "translation" THEN s.language ELSE "")

\* a message that is stored like a result of the section
SectionManager_show_saves(s, text) ==
    SectionManager_saveSectionContent([s EXCEPT !.panel[s.currentSectionElement] = text])

\* element.innerText = text on the current section element
SectionManager_show(s, text) ==
    [s EXCEPT !.panel[s.currentSectionElement] = text]

\* handleAiWrite that tests the note without trimming it
SectionManager_handleAiWrite_noTrim(s) ==
    IF s.activeSection = Null THEN s
    ELSE The({IF ~Truthy(StorageManager_getFromLocalStorage(s1, "apiKey", Str("")))
             THEN s1
             ELSE IF s1.noteText = "" THEN s1
             ELSE [s1 EXCEPT !.runs = @ + 1,
                             !.statusReads = Append(@, 0),
                             !.calls = @ \cup {Call("digest", s1.runs + 1,
                                                    Trim(s1.noteText),
                                                    "", Null, Null, "", 0)}] :
        s1 \in {IF s.pollingTimeout # NoHandle
             THEN [s EXCEPT !.timers = @ \ {s.pollingTimeout}]
             ELSE s}})

\* handleAiWrite() up to the await of generateCacheKey (lines 1980-1998)
SectionManager_handleAiWrite(s) ==
    IF s.activeSection = Null THEN s
    ELSE The({IF ~Truthy(StorageManager_getFromLocalStorage(s1, "apiKey", Str("")))
             THEN s1
             ELSE IF Trim(s1.noteText) = "" THEN s1
             ELSE [s1 EXCEPT !.runs = @ + 1,
                             !.statusReads = Append(@, 0),
                             !.calls = @ \cup {Call("digest", s1.runs + 1,
                                                    Trim(s1.noteText),
                                                    "", Null, Null, "", 0)}] :
        s1 \in {IF s.pollingTimeout # NoHandle
             THEN [s EXCEPT !.timers = @ \ {s.pollingTimeout}]
             ELSE s}})

\* if (this.apiCache[cacheKey]) (line 2000)
SectionManager_cacheHit(s, cacheKey) ==
    cacheKey \in DOMAIN s.apiCache /\ s.apiCache[cacheKey] # ""

\* handleAiWrite() once the cache key is there, to the await of the POST
\* (lines 2000-2034)
SectionManager_handleAiWrite_withKey(s1, call, cacheKey) ==
    IF SectionManager_cacheHit(s1, cacheKey)
    THEN The({SectionManager_saveSectionContent(s2) :
        s2 \in {SectionManager_setContent(s1, s1.currentSectionElement,
                                       s1.apiCache[cacheKey])}})
    ELSE IF s1.activeSection \in SectionSet
         THEN [s1 EXCEPT !.panel[s1.currentSectionElement] = "Loading...",
                         !.calls = @ \cup {Call("post", call.run, call.content,
                                                cacheKey, s1.activeSection,
                                                s1.currentNoteId, s1.language, 0)}]
         ELSE SectionManager_show(s1, "Function not implemented for this section.")

\* handleAiWrite() from the return of the digest on (lines 1998-2034)
SectionManager_handleAiWrite_afterDigest(s, call) ==
    The({The({SectionManager_handleAiWrite_withKey(s1, call, cacheKey) :
        cacheKey \in {SectionManager_generateCacheKey(s1, call.content)}}) :
        s1 \in {[s EXCEPT !.calls = @ \ {call}]}})

\* pollForStatus that never gives up
SectionManager_pollForStatus_noLimit(s, job, retries) ==
    [s EXCEPT !.calls = @ \cup {[job EXCEPT !.kind = "get", !.retries = retries]},
              !.statusReads[job.run] = @ + 1]

\* pollForStatus(statusUrl, apiKey, cacheKey, retries) up to the await of
\* the status read (lines 2047-2056)
SectionManager_pollForStatus(s, job, retries) ==
    IF retries >= maxRetries
    THEN SectionManager_show(s, "Job timed out. Please try again.")
    ELSE [s EXCEPT !.calls = @ \cup {[job EXCEPT !.kind = "get", !.retries = retries]},
                   !.statusReads[job.run] = @ + 1]

\* what the POST came back with: a response with a status url, one
\* without, or an exception
PostOutcomes == {"accepted", "direct", "error"}

\* handleAiWrite() after the POST (lines 2036-2043)
SectionManager_handleAiWrite_afterPost(s, call, outcome) ==
    The({CASE outcome = "accepted" ->
                The({SectionManager_pollForStatus(s2, call, 0) :
        s2 \in {SectionManager_show(s1, "Job accepted. Waiting for result...")}})
          [] outcome = "direct" -> s1
          [] OTHER -> SectionManager_show(s1, "Error: failed") :
        s1 \in {[s EXCEPT !.calls = @ \ {call}]}})

\* the result field every endpoint answers with
ResultField(op) ==
    CASE op = "summary" -> "summary"
      [] op = "translation" -> "content"
      [] op = "grammar" -> "proofread"
      [] op = "rewriting" -> "paraphrase"
      [] OTHER -> Null

\* a parsed result: the array of a keywords job (list), or the object of
\* another job, whose one field holds text
Payload(kind, text, list) == [kind |-> kind, text |-> text, list |-> list]

\* result.<field> of the parsed payload, "" when it has no such field
Field(payload, name) ==
    IF payload.kind # "keywords" /\ ResultField(payload.kind) = name
    THEN payload.text ELSE ""

\* result.join(', ')
RECURSIVE Join(_)
Join(list) ==
    IF Len(list) = 0 THEN ""
    ELSE IF Len(list) = 1 THEN list[1]
    ELSE list[1] \o ", " \o Join(Tail(list))

\* the text shown for a completed job (lines 2061-2076): the field is
\* chosen by the section that is active when the status read returns
FinalResult(section, payload) ==
    CASE section = "summary" ->
            IF Field(payload, "summary") # ""
            THEN Field(payload, "summary") ELSE "No summary found."
      [] section = "translation" ->
            IF Field(payload, "content") # ""
            THEN Field(payload, "content") ELSE "No translation found."
      [] section = "grammar" ->
            IF Field(payload, "proofread") # ""
            THEN Field(payload, "proofread") ELSE "No proofread result found."
      [] section = "rewriting" ->
            IF Field(payload, "paraphrase") # ""
            THEN Field(payload, "paraphrase") ELSE "No rewritten text found."
      [] section = "keywords" ->
            IF payload.kind = "keywords" THEN Join(payload.list)
            ELSE "No keywords found."
      [] OTHER -> "No result found."

\* the completed branch of pollForStatus (lines 2078-2081); done records
\* what the job was submitted for, and how many runs had been started when
\* it completed
SectionManager_complete(s1, call, finalResult) ==
    The({The({SectionManager_saveSectionContent(s3) :
        s3 \in {[s2 EXCEPT !.apiCache = MapPut(@, call.cacheKey, finalResult),
                       !.done = @ \cup {[op |-> call.op, doc |-> call.doc,
                                         lang |-> call.lang,
                                         content |-> call.content,
                                         upTo |-> s2.runs]}]}}) :
        s2 \in {SectionManager_setContent(s1, s1.currentSectionElement, finalResult)}})

\* pollForStatus after the status read that polls again after a failed status
SectionManager_pollForStatus_afterRead_retriesFailed(s, call, outcome) ==
    The({CASE outcome.status \in {"completed", "success"} ->
                The({SectionManager_complete(s1, call, finalResult) :
        finalResult \in {FinalResult(s1.activeSection, outcome.payload)}})
          [] outcome.status = "error" ->
                SectionManager_show(s1, "Polling failed: failed")
          [] OTHER ->
                The({[s1 EXCEPT !.pollingTimeout = timer,
                                   !.timers = @ \cup {timer}] :
        timer \in {[call EXCEPT !.kind = "timer", !.retries = call.retries + 1]}}) :
        s1 \in {[s EXCEPT !.calls = @ \ {call}]}})

\* pollForStatus after the status read (lines 2058-2091): outcome.status is
\* the job's status, or "error" when the read or the parse threw
SectionManager_pollForStatus_afterRead(s, call, outcome) ==
    The({CASE outcome.status \in {"completed", "success"} ->
                The({SectionManager_complete(s1, call, finalResult) :
        finalResult \in {FinalResult(s1.activeSection, outcome.payload)}})
          [] outcome.status = "failed" ->
                SectionManager_show(s1, "Job failed: Unknown error")
          [] outcome.status = "error" ->
                SectionManager_show(s1, "Polling failed: failed")
          [] OTHER ->
                The({[s1 EXCEPT !.pollingTimeout = timer,
                                   !.timers = @ \cup {timer}] :
        timer \in {[call EXCEPT !.kind = "timer", !.retries = call.retries + 1]}}) :
        s1 \in {[s EXCEPT !.calls = @ \ {call}]}})

\* the polling timer of line 2087 fires
SectionManager_pollTimer(s, timer) ==
    The({SectionManager_pollForStatus(s1, timer, timer.retries) :
        s1 \in {[s EXCEPT !.timers = @ \ {timer}]}})

\* ApiKeyManager.saveApiKey() (lines 1905-1914)
ApiKeyManager_saveApiKey(s, input) ==
    IF Trim(input) # ""
    THEN StorageManager_saveToLocalStorage(s, "apiKey", Str(Trim(input)))
    ELSE s

----------------------------------------------------------------------------
(* TabManager: part_000 lines 1425-1733 *)

\* tabs[index] for a 0-based index
TabAt(s, index) == s.tabs[index + 1]

\* saveTabsToStorage()
TabManager_saveTabsToStorage(s) ==
    [s EXCEPT !.pendingWrites =
                  MapPut(MapPut(@, "tabs", Json(s.tabs)),
                         "currentTabIndex", Num(s.currentTabIndex)),
              !.writeTimeout = TRUE]

\* lines 1508-1509 for the tab id; this.tabHistories[id] is undefined once
\* a tab with the same id was closed, and the call of pushState on it throws
TabManager_saveContentOf(s, id) ==
    The({IF id \notin DOMAIN s1.tabHistories
        THEN [s1 EXCEPT !.threw = TRUE]
        ELSE The({[s1 EXCEPT !.tabHistories[id] = h] :
        h \in {HistoryManager_pushState(s1.tabHistories[id], s1.noteText)}}) :
        s1 \in {StorageManager_saveToLocalStorage(s, id, Str(s.noteText))}})

\* saveCurrentTabContent()
TabManager_saveCurrentTabContent(s) ==
    IF s.currentTabIndex = -1 THEN s
    ELSE The({TabManager_saveContentOf(s, id) :
        id \in {TabAt(s, s.currentTabIndex).id}})

\* lines 1489-1499 of switchTab for the tab id
TabManager_showTab(s2, id) ==
    IF id \notin DOMAIN s2.tabHistories
    THEN [s2 EXCEPT !.threw = TRUE]
    ELSE The({The({The({TabManager_saveTabsToStorage(s4) :
        s4 \in {SectionManager_setNoteId(s3, id)}}) :
        s3 \in {[s2 EXCEPT !.noteText = newContent,
                        !.tabHistories[id].current = newContent]}}) :
        newContent \in {IF s2.tabHistories[id].current # ""
             THEN s2.tabHistories[id].current
             ELSE StorageManager_getFromLocalStorage(s2, id, Str("")).str}})

\* switchTab that moves the index before it saves the editor
TabManager_switchTab_body_savesAfter(s, index) ==
    The({IF s1.threw THEN s1
        ELSE The({TabManager_showTab(s1, id) :
        id \in {TabAt(s1, index).id}}) :
        s1 \in {TabManager_saveCurrentTabContent([s EXCEPT !.currentTabIndex = index])}})

\* switchTab(index) from line 1484 on
TabManager_switchTab_body(s, index) ==
    The({IF s1.threw THEN s1
        ELSE The({The({TabManager_showTab(s2, id) :
        id \in {TabAt(s2, index).id}}) :
        s2 \in {[s1 EXCEPT !.currentTabIndex = index]}}) :
        s1 \in {TabManager_saveCurrentTabContent(s)}})

\* switchTab without the early return of line 1483
TabManager_switchTab_noEarlyReturn(s, index) ==
    TabManager_switchTab_body(s, index)

\* switchTab(index)
TabManager_switchTab(s, index) ==
    IF s.currentTabIndex = index THEN s
    ELSE TabManager_switchTab_body(s, index)

\* renderTabs(): an element is made for every index that has none, and the
\* elements beyond the last tab are removed from the end.  tabElements[e] is
\* the position in tabs of the tab object the handlers of element e hold, 0
\* once that object has left the list
TabManager_renderTabs(s) ==
    [s EXCEPT !.tabElements =
        [e \in 1..Len(s.tabs) |->
            IF e <= Len(s.tabElements) THEN s.tabElements[e] ELSE e]]

\* createNewTab() from line 1471 on, at the clock value c
TabManager_createNewTab_push(s1, c) ==
    The({The({The({TabManager_switchTab(s3, Len(s3.tabs) - 1) :
        s3 \in {TabManager_renderTabs(s2)}}) :
        s2 \in {[s1 EXCEPT !.tabs = Append(@, [id |-> tabId,
                                       title |-> "Note " \o ToString(Len(s1.tabs) + 1)]),
                   !.tabHistories = MapPut(@, tabId, HistoryManager_new)]}}) :
        tabId \in {"note-" \o ToString(c)}})

\* createNewTab(), at the clock value c
TabManager_createNewTab(s, c) ==
    The({IF s1.threw THEN s1 ELSE TabManager_createNewTab_push(s1, c) :
        s1 \in {IF s.currentTabIndex # -1 THEN TabManager_saveCurrentTabContent(s) ELSE s}})

\* this.tabs.splice(index, 1): the tabs after index move down by one, and
\* so do the positions the elements' handlers refer to
SpliceTabs(s, index) ==
    [s EXCEPT !.tabs = SubSeq(@, 1, index) \o SubSeq(@, index + 2, Len(@)),
              !.tabElements = [e \in DOMAIN @ |->
                                  IF @[e] = index + 1 THEN 0
                                  ELSE IF @[e] > index + 1 THEN @[e] - 1 ELSE @[e]]]

\* lines 1525-1529: the content key and the result keys of the five sections
RECURSIVE RemoveSectionKeys(_, _, _)
RemoveSectionKeys(s, id, n) ==
    IF n > Len(Sections) THEN s
    ELSE The({RemoveSectionKeys(s1, id, n + 1) :
        s1 \in {StorageManager_removeFromLocalStorage(s, id \o "-" \o Sections[n])}})

\* the index resolution without the decrement of lines 1537-1538
TabManager_closeTab_index_noDecrement(s3, index, wasActiveTab) ==
    IF wasActiveTab
    THEN [s3 EXCEPT !.currentTabIndex =
              IF index >= Len(s3.tabs) THEN Len(s3.tabs) - 1 ELSE index]
    ELSE s3

\* the index resolution that moves the index down for every other tab closed
TabManager_closeTab_index_alwaysDecrement(s3, index, wasActiveTab) ==
    IF wasActiveTab
    THEN [s3 EXCEPT !.currentTabIndex =
              IF index >= Len(s3.tabs) THEN Len(s3.tabs) - 1 ELSE index]
    ELSE [s3 EXCEPT !.currentTabIndex = @ - 1]

\* lines 1531-1539: the index of the current tab after the splice
TabManager_closeTab_index(s3, index, wasActiveTab) ==
    IF wasActiveTab
    THEN [s3 EXCEPT !.currentTabIndex =
              IF index >= Len(s3.tabs) THEN Len(s3.tabs) - 1 ELSE index]
    ELSE IF index < s3.currentTabIndex
         THEN [s3 EXCEPT !.currentTabIndex = @ - 1]
         ELSE s3

\* lines 1541-1547 of closeTab
TabManager_closeTab_finish(s4, index, wasActiveTab) ==
    The({The({IF wasActiveTab
        THEN The({TabManager_switchTab(s7,
                     IF index >= Len(s7.tabs) THEN Len(s7.tabs) - 1 ELSE index) :
        s7 \in {[s6 EXCEPT !.currentTabIndex = -1]}})
        ELSE s6 :
        s6 \in {TabManager_renderTabs(s5)}}) :
        s5 \in {TabManager_saveTabsToStorage(s4)}})

\* closeTab(index) from line 1518 on
TabManager_closeTab_body(s, index) ==
    The({The({The({The({The({The({The({TabManager_closeTab_finish(s4, index, wasActiveTab) :
        s4 \in {TabManager_closeTab_index(s3, index, wasActiveTab)}}) :
        s3 \in {RemoveSectionKeys(s2a, id, 1)}}) :
        s2a \in {StorageManager_removeFromLocalStorage(s2, id)}}) :
        s2 \in {[s1 EXCEPT !.tabHistories = MapDel(@, id)]}}) :
        s1 \in {SpliceTabs(s, index)}}) :
        wasActiveTab \in {index = s.currentTabIndex}}) :
        id \in {TabAt(s, index).id}})

\* closeTab whose guard lets the last tab be closed
TabManager_closeTab_closesLast(s, index) ==
    IF Len(s.tabs) < 1 THEN s
    ELSE TabManager_closeTab_body(s, index)

\* closeTab(index)
TabManager_closeTab(s, index) ==
    IF Len(s.tabs) <= 1 THEN s
    ELSE TabManager_closeTab_body(s, index)

\* the save handler of the title input of element e (lines 1633-1638): the
\* title of the tab object the element was created for becomes the trimmed
\* input, or 'Untitled'
TabManager_rename(s, e, input) ==
    The({TabManager_saveTabsToStorage(s1) :
        s1 \in {IF s.tabElements[e] = 0 THEN s
        ELSE [s EXCEPT !.tabs[s.tabElements[e]].title =
                           IF Trim(input) # "" THEN Trim(input) ELSE "Untitled"]}})

\* lines 1570-1575 and 1583-1588: the editor takes the returned state
TabManager_applyHistory(s, id, r) ==
    [s EXCEPT !.tabHistories[id] = r.h,
              !.noteText = IF r.ret # Null THEN r.ret ELSE @]

\* undo()
TabManager_undo(s) ==
    IF s.currentTabIndex = -1 THEN s
    ELSE The({IF id \notin DOMAIN s.tabHistories
             THEN [s EXCEPT !.threw = TRUE]
             ELSE The({TabManager_applyHistory(s, id, r) :
        r \in {HistoryManager_undo(s.tabHistories[id])}}) :
        id \in {TabAt(s, s.currentTabIndex).id}})

\* redo()
TabManager_redo(s) ==
    IF s.currentTabIndex = -1 THEN s
    ELSE The({IF id \notin DOMAIN s.tabHistories
             THEN [s EXCEPT !.threw = TRUE]
             ELSE The({TabManager_applyHistory(s, id, r) :
        r \in {HistoryManager_redo(s.tabHistories[id])}}) :
        id \in {TabAt(s, s.currentTabIndex).id}})

----------------------------------------------------------------------------
(* NoteApp: part_000 lines 2218-2333 *)

\* the right-hand tab that the page marks active when it loads
InitialSection == "summary"

\* the HistoryManager made for a restored tab (lines 1450-1452)
RestoredHistory(s, id) ==
    [HistoryManager_new EXCEPT
        !.current = StorageManager_getFromLocalStorage(s, id, Str("")).str]

\* the restore branch that always opens the first tab
TabManager_restore_firstTab(s, ts, savedTabIndex) ==
    The({The({TabManager_switchTab(s2, 0) :
        s2 \in {TabManager_renderTabs(s1)}}) :
        s1 \in {[s EXCEPT !.tabs = ts,
                  !.tabHistories = [id \in {ts[i].id : i \in 1..Len(ts)} |->
                                       RestoredHistory(s, id)]]}})

\* lines 1448-1460 of TabManager's constructor, for the parsed tab list ts
TabManager_restore(s, ts, savedTabIndex) ==
    The({The({The({IF IsNum(index) /\ index.num >= 0 /\ index.num < Len(ts)
        THEN TabManager_switchTab(s2, index.num)
        ELSE TabManager_switchTab(s2, 0) :
        index \in {ParseInt(savedTabIndex)}}) :
        s2 \in {TabManager_renderTabs(s1)}}) :
        s1 \in {[s EXCEPT !.tabs = ts,
                  !.tabHistories = [id \in {ts[i].id : i \in 1..Len(ts)} |->
                                       RestoredHistory(s, id)]]}})

\* TabManager's constructor from line 1444 on, at the clock value c
TabManager_constructor(s, c) ==
    The({The({IF Truthy(savedTabs)
        THEN TabManager_restore(s, savedTabs.json, savedTabIndex)
        ELSE TabManager_createNewTab(s, c) :
        savedTabIndex \in {StorageManager_getFromLocalStorage(s, "currentTabIndex", Num(-1))}}) :
        savedTabs \in {StorageManager_getFromLocalStorage(s, "tabs", JsNull)}})

\* the state in which the managers are constructed, on the durable store ls
NoteApp_fresh(ls, c) ==
    [pendingWrites |-> EmptyMap, writeTimeout |-> FALSE, localStorage |-> ls,
     tabs |-> <<>>, tabElements |-> <<>>, tabHistories |-> EmptyMap,
     currentTabIndex |-> -1, noteText |-> "", inputTimer |-> FALSE, now |-> c,
     currentNoteId |-> Null, activeSection |-> Null,
     currentSectionElement |-> Null, translationManager |-> FALSE,
     language |-> "", panel |-> [sec \in SectionSet |-> ""],
     apiCache |-> EmptyCache, pollingTimeout |-> NoHandle, timers |-> {},
     calls |-> {}, runs |-> 0, statusReads |-> <<>>, done |-> {},
     threw |-> FALSE]

\* new NoteApp() on the durable store ls at the clock value c: the
\* SectionManager, the TabManager, AiTabs (which switches to the section
\* the page marks active) and the TranslationManager, in this order
NoteApp_constructor(ls, c) ==
    The({The({IF s1.threw THEN s1
        ELSE The({[s2 EXCEPT !.language =
                                StorageManager_getFromLocalStorage(s2,
                                    "translationLanguage", Str("en")).str,
                            !.translationManager = TRUE] :
        s2 \in {SectionManager_switchSection(s1, InitialSection)}}) :
        s1 \in {TabManager_constructor(s0, c)}}) :
        s0 \in {NoteApp_fresh(ls, c)}})

----------------------------------------------------------------------------
(* A HistoryManager on its own: inputs and initial state *)

\* texts given to pushState when every input is allowed
HistoryTexts == {"", "A", "ABC", "ABCDEFG", "ABCDEFGHIJKL"}

\* two texts whose lengths differ by 6: every change between them is recorded
FillTexts == {"A", "ABCDEFG"}

\* number of pushState calls explored with free inputs
MaxPushes == 4

HistoryInit ==
    /\ hm = HistoryManager_new
    /\ hmQualified = TRUE
    /\ hmCalls = 0
    /\ hmEvicted = FALSE
    /\ hmRet = Null

----------------------------------------------------------------------------
(* The state machine of the session *)

\* the program state as one record
S == [pendingWrites |-> pendingWrites, writeTimeout |-> writeTimeout,
      localStorage |-> localStorage, tabs |-> tabs, tabElements |-> tabElements,
      tabHistories |-> tabHistories, currentTabIndex |-> currentTabIndex,
      noteText |-> noteText, inputTimer |-> inputTimer, now |-> now,
      currentNoteId |-> currentNoteId, activeSection |-> activeSection,
      currentSectionElement |-> currentSectionElement,
      translationManager |-> translationManager, language |-> language,
      panel |-> panel, apiCache |-> apiCache, pollingTimeout |-> pollingTimeout,
      timers |-> timers, calls |-> calls, runs |-> runs, statusReads |-> statusReads,
      done |-> done, threw |-> FALSE]

\* the variables take the values of the state r
Becomes(r) ==
    /\ pendingWrites' = r.pendingWrites
    /\ writeTimeout' = r.writeTimeout
    /\ localStorage' = r.localStorage
    /\ tabs' = r.tabs
    /\ tabElements' = r.tabElements
    /\ tabHistories' = r.tabHistories
    /\ currentTabIndex' = r.currentTabIndex
    /\ noteText' = r.noteText
    /\ inputTimer' = r.inputTimer
    /\ now' = r.now
    /\ currentNoteId' = r.currentNoteId
    /\ activeSection' = r.activeSection
    /\ currentSectionElement' = r.currentSectionElement
    /\ translationManager' = r.translationManager
    /\ language' = r.language
    /\ panel' = r.panel
    /\ apiCache' = r.apiCache
    /\ pollingTimeout' = r.pollingTimeout
    /\ timers' = r.timers
    /\ calls' = r.calls
    /\ runs' = r.runs
    /\ statusReads' = r.statusReads
    /\ done' = r.done

\* the session before the handler is the state before the step, and the
\* state the handler leaves is the state after it
Runs(Handler(_)) ==
    /\ \E s \in {S} : \E r \in {Handler(s)} : Becomes(r)
    /\ UNCHANGED hvars
    /\ UNCHANGED ovars

\* most tabs open at once
MaxTabs == 2
\* latest clock value at which a tab is created
MaxClock == 2
\* longest past plus future of a tab's history for which typing is explored
MaxTimeline == 1
\* most clicks on the AI button that start runs
MaxClicks == 1
\* most non-terminal answers a job gets while tabs and sections are switched
MaxPending == 1
\* most clicks on the AI button that follow one another
MaxIdleClicks == 2

\* most store calls between two flushes
MaxStoreOps == 3
\* most saves, undos and redos of a scripted editing session
MaxEdits == 6

\* the texts typed in a scripted editing session
EditTexts == {"A", "ABCDEFG", "ABCDEFGHIJKL"}

\* keys and values given to the StorageManager when it is driven directly
StoreKeys == {"note-1", "note-1-summary"}
StoreValues == {Str("A"), Str("B")}

\* texts the user types into a panel
PanelTexts == {"P"}
\* languages the user selects
Languages == {"en", "fr"}
\* titles the user types
RenameInputs == {"  "}
\* the text typed into the editor
SessionTexts == {"ABCDEFG"}
\* the section opened while tabs are switched during a run
EnrichSections == {"translation"}
\* the section opened between clicks that follow one another
CacheSections == {"keywords"}
\* API keys the user saves
ApiKeys == {"K"}

\* the session starts in the state r
Starts(r) ==
        /\ pendingWrites = r.pendingWrites
        /\ writeTimeout = r.writeTimeout
        /\ localStorage = r.localStorage
        /\ tabs = r.tabs
        /\ tabElements = r.tabElements
        /\ tabHistories = r.tabHistories
        /\ currentTabIndex = r.currentTabIndex
        /\ noteText = r.noteText
        /\ inputTimer = r.inputTimer
        /\ now = r.now
        /\ currentNoteId = r.currentNoteId
        /\ activeSection = r.activeSection
        /\ currentSectionElement = r.currentSectionElement
        /\ translationManager = r.translationManager
        /\ language = r.language
        /\ panel = r.panel
        /\ apiCache = r.apiCache
        /\ pollingTimeout = r.pollingTimeout
        /\ timers = r.timers
        /\ calls = r.calls
        /\ runs = r.runs
        /\ statusReads = r.statusReads
        /\ done = r.done

\* a first load: the durable store is empty
SessionInit ==
    \E r \in {NoteApp_constructor(EmptyMap, 1)} : Starts(r)

\* the durable store an earlier session left: one tab with a text, made at
\* the clock value 1, and an API key
ReturningStore ==
    [k \in {"tabs", "currentTabIndex", "note-1", "apiKey"} |->
        CASE k = "tabs" -> Json(<<[id |-> "note-1", title |-> "Note 1"]>>)
          [] k = "currentTabIndex" -> Str("0")
          [] k = "note-1" -> Str("ABCDEFG")
          [] OTHER -> Str("K")]

\* a reload on that store, at a later clock value
ReturningInit ==
    \E r \in {NoteApp_constructor(ReturningStore, MaxClock)} : Starts(r)

\* the click on addTabBtn; the clock has advanced since the last tab was made, or not
CreateNewTab ==
    /\ Len(tabs) < MaxTabs
    /\ \E c \in {now, now + 1} :
          /\ c <= MaxClock
          /\ Runs(LAMBDA s : TabManager_createNewTab([s EXCEPT !.now = c], c))

\* the click on the tab element of index
SwitchTab(index) ==
    Runs(LAMBDA s : TabManager_switchTab(s, index))

\* the click on the close button of the tab element of index
CloseTab(index) ==
    Runs(LAMBDA s : TabManager_closeTab(s, index))

\* the title input of element e loses focus
Rename(e, input) ==
    Runs(LAMBDA s : TabManager_rename(s, e, input))

\* the user edits the note: the input event (re)starts the 500 ms debounce
TypeNote(t) ==
    /\ currentTabIndex # -1
    /\ tabs[currentTabIndex + 1].id \in DOMAIN tabHistories =>
          Len(tabHistories[tabs[currentTabIndex + 1].id].past)
              + Len(tabHistories[tabs[currentTabIndex + 1].id].future) <= MaxTimeline
    /\ Runs(LAMBDA s : [s EXCEPT !.noteText = t, !.inputTimer = TRUE])

\* the debounced input handler runs (lines 2240-2243)
InputTimerFires ==
    /\ inputTimer
    /\ Runs(LAMBDA s : TabManager_saveCurrentTabContent([s EXCEPT !.inputTimer = FALSE]))

\* Ctrl+Z in the note
Undo ==
    Runs(LAMBDA s : TabManager_undo(s))

\* Ctrl+Y in the note
Redo ==
    Runs(LAMBDA s : TabManager_redo(s))

\* the 100 ms timer of the StorageManager fires
FlushTimerFires ==
    /\ writeTimeout
    /\ Runs(LAMBDA s : StorageManager_flushWrites(s))

\* the click on a right-hand tab (AiTabs.switchTab)
SwitchSection(section) ==
    Runs(LAMBDA s : SectionManager_switchSection(s, section))

\* the user types into the panel of the open section (the input listener of line 1933)
PanelInput(t) ==
    /\ currentSectionElement # Null
    /\ Runs(LAMBDA s : SectionManager_saveSectionContent(
                           [s EXCEPT !.panel[s.currentSectionElement] = t]))

\* the change listener of the language select (lines 1842-1845)
TranslationManager_change(s, l) ==
    The({SectionManager_loadSectionContent(s1, "translation") :
        s1 \in {StorageManager_saveToLocalStorage([s EXCEPT !.language = l],
                                          "translationLanguage", Str(l))}})

\* the user selects a language
SelectLanguage(l) ==
    /\ l # language
    /\ Runs(LAMBDA s : TranslationManager_change(s, l))

\* the user saves an API key in the settings dialog
SaveApiKey(k) ==
    Runs(LAMBDA s : ApiKeyManager_saveApiKey(s, k))

\* the two click listeners of aiWriteButton (lines 1938-1940 and 2271),
\* in the order they were added: each calls handleAiWrite()
AiWriteButton_click(s) ==
    The({SectionManager_handleAiWrite(s1) :
        s1 \in {SectionManager_handleAiWrite(s)}})

\* the click on aiWriteButton
HandleAiWrite ==
    /\ runs < 2 * MaxClicks
    /\ Runs(LAMBDA s : AiWriteButton_click(s))

\* the digest of a run is ready
DigestDone(call) ==
    /\ call.kind = "digest"
    /\ Runs(LAMBDA s : SectionManager_handleAiWrite_afterDigest(s, call))

\* the POST of a run returns
PostResponds(call, outcome) ==
    /\ call.kind = "post"
    /\ Runs(LAMBDA s : SectionManager_handleAiWrite_afterPost(s, call, outcome))

\* the results the service gives for a job of the operation op
Payloads(op) ==
    IF op = "keywords"
    THEN {Payload(op, "", <<>>), Payload(op, "", <<"k1", "k2">>)}
    ELSE {Payload(op, "R", <<>>)}

\* what a status read can come back with
GetOutcomes(op) ==
    {[status |-> st, payload |-> p] : st \in {"completed", "success"}, p \in Payloads(op)}
    \cup {[status |-> st, payload |-> Payload(op, "", <<>>)] :
             st \in {"pending", "failed", "error"}}

\* a status read of a job returns
GetResponds(call, outcome) ==
    /\ call.kind = "get"
    /\ Runs(LAMBDA s : SectionManager_pollForStatus_afterRead(s, call, outcome))

\* a polling timer fires
PollTimerFires(timer) ==
    Runs(LAMBDA s : SectionManager_pollTimer(s, timer))

\* the clicks on the tab bar
TabActions ==
    \/ CreateNewTab
    \/ \E index \in 0..(Len(tabs) - 1) : SwitchTab(index)
    \/ \E index \in 0..(Len(tabs) - 1) : CloseTab(index)

\* nothing has been logged
ObserversInit ==
    /\ edits = <<>>
    /\ storeLog = <<>>

Init == HistoryInit /\ ObserversInit /\ SessionInit

InitReturning == HistoryInit /\ ObserversInit /\ ReturningInit

\* the tab bar and the editor the user types into
Next ==
    \/ TabActions
    \/ FlushTimerFires
    \/ \E t \in SessionTexts : TypeNote(t)
    \/ InputTimerFires

Spec == Init /\ [][Next]_vars

\* the tab bar and the panel the user types into
PanelNext ==
    \/ TabActions
    \/ FlushTimerFires
    \/ \E t \in PanelTexts : PanelInput(t)

SpecPanel == Init /\ [][PanelNext]_vars

\* the tab bar alone, with renaming
TabsNext ==
    \/ TabActions
    \/ FlushTimerFires
    \/ \E e \in 1..Len(tabElements), input \in RenameInputs : Rename(e, input)

SpecTabs == Init /\ [][TabsNext]_vars

\* the steps of the enrichment runs
RunSteps ==
    \/ \E call \in calls : DigestDone(call)
    \/ \E call \in calls, outcome \in PostOutcomes : PostResponds(call, outcome)
    \/ \E timer \in timers : PollTimerFires(timer)

\* the click on aiWriteButton while no call and no timer is outstanding,
\* for at most the given number of clicks
HandleAiWriteIdle(most) ==
    /\ runs < 2 * most
    /\ calls = {}
    /\ timers = {}
    /\ Runs(LAMBDA s : AiWriteButton_click(s))

\* one page with one tab: the runs of a click, with every answer of the
\* service
PollNext ==
    \/ \E t \in SessionTexts : TypeNote(t)
    \/ \E k \in ApiKeys : SaveApiKey(k)
    \/ HandleAiWriteIdle(MaxClicks)
    \/ RunSteps
    \/ \E call \in calls : \E outcome \in GetOutcomes(call.op) : GetResponds(call, outcome)

SpecPoll == Init /\ [][PollNext]_vars

\* a status read of a job returns; the job is answered "pending" MaxPending
\* times at most
GetRespondsSoon ==
    \E call \in calls : \E outcome \in GetOutcomes(call.op) :
        /\ outcome.status = "pending" => call.retries < MaxPending
        /\ GetResponds(call, outcome)

\* a reloaded page: the runs of a click while tabs are made, switched and
\* closed and the translation section is opened
EnrichNext ==
    \/ HandleAiWrite
    \/ RunSteps
    \/ GetRespondsSoon
    \/ TabActions
    \/ \E section \in EnrichSections : SwitchSection(section)

SpecEnrich == InitReturning /\ [][EnrichNext]_vars

\* a reloaded page with one tab: clicks that follow one another, in the
\* summary and the keywords sections
CacheNext ==
    \/ HandleAiWriteIdle(MaxIdleClicks)
    \/ RunSteps
    \/ GetRespondsSoon
    \/ \E section \in CacheSections : SwitchSection(section)

SpecCache == InitReturning /\ [][CacheNext]_vars

\* the click on aiWriteButton while the jobs of the earlier clicks are
\* unresolved: every earlier run has its job accepted, and a status read is
\* outstanding or a polling timer is scheduled
HandleAiWriteOverJob ==
    /\ runs = 2 * MaxClicks
    /\ calls \cup timers # {}
    /\ \A call \in calls : call.kind = "get"
    /\ Runs(LAMBDA s : AiWriteButton_click(s))

\* a reloaded page with one tab: a click, and one more click while the jobs
\* of the first are unresolved
SupersedeNext ==
    \/ HandleAiWriteIdle(MaxClicks)
    \/ HandleAiWriteOverJob
    \/ RunSteps
    \/ GetRespondsSoon

SpecSupersede == InitReturning /\ [][SupersedeNext]_vars

----------------------------------------------------------------------------
(* The StorageManager driven call by call *)

\* a handler runs, and the log of store calls becomes log
RunsLogged(Handler(_), log) ==
    /\ \E s \in {S} : \E r \in {Handler(s)} : Becomes(r)
    /\ storeLog' = log
    /\ UNCHANGED edits
    /\ UNCHANGED hvars

\* an entry of the log of store calls
StoreCall(op, key, value) == [op |-> op, key |-> key, value |-> value]

\* saveToLocalStorage(key, value) is called
StoreWrite(key, value) ==
    /\ Len(storeLog) < MaxStoreOps
    /\ RunsLogged(LAMBDA s : StorageManager_saveToLocalStorage(s, key, value),
                  Append(storeLog, StoreCall("set", key, value)))

\* removeFromLocalStorage(key) is called
StoreRemove(key) ==
    /\ Len(storeLog) < MaxStoreOps
    /\ RunsLogged(LAMBDA s : StorageManager_removeFromLocalStorage(s, key),
                  Append(storeLog, StoreCall("remove", key, JsNull)))

\* the 100 ms timer fires and the flush goes through
StoreFlush ==
    /\ writeTimeout
    /\ RunsLogged(LAMBDA s : StorageManager_flushWrites(s), <<>>)

\* the 100 ms timer fires and localStorage.setItem throws for the entry of key
StoreFlushThrows(key, written) ==
    /\ writeTimeout
    /\ key \in DOMAIN pendingWrites
    /\ written \subseteq DOMAIN pendingWrites \ {key}
    /\ RunsLogged(LAMBDA s : StorageManager_flushWrites_throws(s, key, written),
                  storeLog)

\* the store alone: writes, removes and timer expiries, the log being
\* the calls since the Map was last cleared
StoreNext ==
    \/ \E key \in StoreKeys, value \in StoreValues : StoreWrite(key, value)
    \/ \E key \in StoreKeys : StoreRemove(key)
    \/ StoreFlush
    \/ \E key \in DOMAIN pendingWrites :
           \E written \in SUBSET (DOMAIN pendingWrites) : StoreFlushThrows(key, written)

SpecStore == Init /\ [][StoreNext]_vars

----------------------------------------------------------------------------
(* The editor of one tab driven by a script *)

\* a handler runs, and the log of editor operations becomes script
RunsScripted(Handler(_), script) ==
    /\ \E s \in {S} : \E r \in {Handler(s)} : Becomes(r)
    /\ edits' = script
    /\ UNCHANGED storeLog
    /\ UNCHANGED hvars

\* the user edits the note to t: the input event (re)starts the 500 ms debounce
EditType(t) ==
    /\ Len(edits) < MaxEdits
    /\ Runs(LAMBDA s : [s EXCEPT !.noteText = t, !.inputTimer = TRUE])

\* the debounced input handler runs (lines 2240-2243) and saves the text
EditSaved ==
    /\ inputTimer
    /\ Len(edits) < MaxEdits
    /\ RunsScripted(LAMBDA s : TabManager_saveCurrentTabContent(
                                   [s EXCEPT !.inputTimer = FALSE]),
                    Append(edits, noteText))

\* Ctrl+Z in the note
EditUndo ==
    /\ Len(edits) < MaxEdits
    /\ RunsScripted(LAMBDA s : TabManager_undo(s), Append(edits, "undo"))

\* Ctrl+Y in the note
EditRedo ==
    /\ Len(edits) < MaxEdits
    /\ RunsScripted(LAMBDA s : TabManager_redo(s), Append(edits, "redo"))

\* a first load with its one empty tab: typing, saving, undo and redo
EditNext ==
    \/ \E t \in EditTexts : EditType(t)
    \/ EditSaved
    \/ EditUndo
    \/ EditRedo

SpecEdit == Init /\ [][EditNext]_vars

----------------------------------------------------------------------------
(* A HistoryManager driven on its own *)

\* pushState(t), any text
HPush(t) ==
    /\ hmCalls < MaxPushes
    /\ hm' = HistoryManager_pushState(hm, t)
    /\ hmQualified' = (hmQualified /\ Abs(Len(hm.current) - Len(t)) > 5)
    /\ hmCalls' = hmCalls + 1
    /\ UNCHANGED <<hmEvicted, hmRet>>
    /\ UNCHANGED svars
    /\ UNCHANGED ovars

\* undo()
HUndo ==
    /\ \E r \in {HistoryManager_undo(hm)} : hm' = r.h /\ hmRet' = r.ret
    /\ hmQualified' = FALSE
    /\ UNCHANGED <<hmCalls, hmEvicted>>
    /\ UNCHANGED svars
    /\ UNCHANGED ovars

\* redo()
HRedo ==
    /\ \E r \in {HistoryManager_redo(hm)} : hm' = r.h /\ hmRet' = r.ret
    /\ hmQualified' = FALSE
    /\ UNCHANGED <<hmCalls, hmEvicted>>
    /\ UNCHANGED svars
    /\ UNCHANGED ovars

HistoryNext ==
    \/ \E t \in HistoryTexts : HPush(t)
    \/ HUndo
    \/ HRedo

SpecHistory == Init /\ [][HistoryNext]_vars

\* pushState(t) with one of the two fill texts, as often as wanted
HFill(t) ==
    /\ hm' = HistoryManager_pushState(hm, t)
    /\ hmEvicted' = (hmEvicted \/ (~hm.isNavigating /\ HistoryManager_records(hm, t)
                                    /\ Len(hm.past) = maxHistorySize))
    /\ UNCHANGED <<hmQualified, hmCalls, hmRet>>
    /\ UNCHANGED svars
    /\ UNCHANGED ovars

HistoryFullNext ==
    \/ \E t \in FillTexts : HFill(t)
    \/ HUndo
    \/ HRedo

SpecHistoryFull == Init /\ [][HistoryFullNext]_vars

----------------------------------------------------------------------------
(* Claims about the HistoryManager *)

\* C1 (part 1): past never holds more than 50 snapshots
C1_PastWithinBound == Len(hm.past) <= 50

\* C1 (part 2): a recording pushState on a full past drops the bottom entry
\* and puts the old current on top
C1_EvictsOldest ==
    \A t \in FillTexts :
        (HFill(t) /\ ~hm.isNavigating /\ HistoryManager_records(hm, t)
                  /\ Len(hm.past) = 50)
            => hm'.past = Append(Tail(hm.past), hm.current)

\* C1: in every reachable state of a HistoryManager past holds at most 50
\* snapshots, and a recording pushState on a full past evicts the oldest entry
C1_PastBounded == [](C1_PastWithinBound) /\ [][C1_EvictsOldest]_vars

\* C1 witness: past is full and an eviction has taken place
C1_Witness == Len(hm.past) = 50 /\ hmEvicted

\* C2: after pushState calls that each change the length by more than 5, with
\* past non-empty, undo() then redo() returns the pre-undo current and leaves
\* current, past and future as they were before the undo
C2_UndoRedoRoundTrip ==
    (hmQualified /\ Len(hm.past) > 0) =>
        LET u == HistoryManager_undo(hm)
            r == HistoryManager_redo(u.h)
        IN  /\ u.ret # Null
            /\ r.ret = hm.current
            /\ r.h.current = hm.current
            /\ r.h.past = hm.past
            /\ r.h.future = hm.future

\* C2 witness: two qualifying pushes have been recorded
C2_Witness == hmQualified /\ Len(hm.past) = 2 /\ hmCalls = 3

----------------------------------------------------------------------------
(* Claims about the tab bar *)

\* the store as a reader sees it
Store ==
    [pendingWrites |-> pendingWrites, localStorage |-> localStorage,
     writeTimeout |-> writeTimeout]

\* the ids a tab can have
TabIds == {"note-" \o ToString(c) : c \in 1..MaxClock}

\* the ids of the open tabs
OpenIds == {tabs[i].id : i \in 1..Len(tabs)}

\* C3, first half: closeTab on a session that holds exactly one tab leaves
\* the tab list, the current index, the histories and the store unchanged
C3_LastCloseRejected ==
    \A index \in 0..(Len(tabs) - 1) :
        (Len(tabs) = 1 /\ CloseTab(index)) =>
            UNCHANGED <<tabs, currentTabIndex, tabHistories, pendingWrites, localStorage>>

\* C3: closing the only tab is rejected and changes nothing, so the session
\* holds at least one tab in every reachable state
C3_AtLeastOneTab == [](Len(tabs) >= 1) /\ [][C3_LastCloseRejected]_vars

\* C3 witness: two tabs were open, the first one was closed, and the one
\* that is left is the only tab: the state in which a close is rejected
C3_Witness == now = 2 /\ Len(tabs) = 1 /\ tabs[1].id = "note-2"

\* C4: after initialization and after every tab operation the current index
\* is a valid index of the tab list (the -1 of closeTab is never left behind)
C4_IndexValid == currentTabIndex >= 0 /\ currentTabIndex < Len(tabs)

\* C4 witness: the second tab was current and a tab was closed, which left
\* the current index on the one remaining tab
C4_Witness ==
    /\ now = 2
    /\ Len(tabs) = 1
    /\ tabs[1].id = "note-1"
    /\ currentTabIndex = 0
    /\ currentNoteId = "note-1"
    /\ "note-2" \notin DOMAIN tabHistories

\* the content key and the five section keys of the tab id
C5_Keys(id) == {id} \cup {id \o "-" \o Sections[n] : n \in 1..Len(Sections)}

\* defaults a reader passes
C5_Defaults == {Str(""), Str("none")}

\* C5, for one step: when closeTab(index) closes a tab, a read of its content
\* key and of each of its five section keys gives the default, in the store
\* as the close leaves it and in that store after a flush
C5_ClosedKeysReadDefault ==
    \A index \in 0..(Len(tabs) - 1) :
        (Len(tabs) > 1 /\ CloseTab(index)) =>
            \A key \in C5_Keys(tabs[index + 1].id), d \in C5_Defaults :
                /\ StorageManager_getFromLocalStorage(Store', key, d) = d
                /\ StorageManager_getFromLocalStorage(
                       StorageManager_flushWrites(Store'), key, d) = d

\* C5: after closeTab closed a tab, its content key and its five section
\* keys read as the default, before and after the next flush
C5_ClosedKeysGone == [][C5_ClosedKeysReadDefault]_vars

\* C5 witness: the first tab, whose text was saved under its id when the
\* second tab was made, has been closed while a section text of the second
\* tab is stored, and its keys are in neither map
C5_Witness ==
    /\ now = 2
    /\ Len(tabs) = 1
    /\ tabs[1].id = "note-2"
    /\ "note-2-summary" \in DOMAIN localStorage
    /\ C5_Keys("note-1") \cap (DOMAIN pendingWrites \cup DOMAIN localStorage) = {}

\* the keys under which a result of the tab id is stored
C6_ResultKeys(id) ==
    {id \o "-" \o Sections[n] : n \in 1..Len(Sections)}
        \cup {id \o "-translation-" \o l : l \in Languages}

\* C6: no queued and no durable entry holds a result of a closed tab, the
\* translation results under {id}-translation-{language} included
C6_NoResultOfClosedTab ==
    \A id \in TabIds \ OpenIds :
        C6_ResultKeys(id) \cap (DOMAIN pendingWrites \cup DOMAIN localStorage) = {}

\* C7, for one step: switchTab(index) on the current index changes no
\* variable of the session: no store write, no editor reload, no history
\* change, no setNoteId
C7_SameIndexNoChange ==
    \A index \in 0..(Len(tabs) - 1) :
        (index = currentTabIndex /\ SwitchTab(index)) => UNCHANGED svars

\* C7: switchTab on the index that is already current changes nothing
C7_SwitchToCurrentIsNoOp == [][C7_SameIndexNoChange]_vars

\* C7 witness: the second tab is current and holds typed text that is not
\* saved yet: a click on its own tab element would save it if switchTab ran
C7_Witness ==
    /\ Len(tabs) = 2
    /\ currentTabIndex = 1
    /\ noteText = "ABCDEFG"
    /\ inputTimer
    /\ tabs[2].id \in DOMAIN tabHistories
    /\ tabHistories[tabs[2].id].current = ""
    /\ tabs[2].id \notin DOMAIN pendingWrites

----------------------------------------------------------------------------
(* Claims about the enrichment runs *)

\* a job for the inputs the run of call would be submitted with has
\* completed before that run was started
C8_CompletedBefore(call) ==
    \E d \in done :
        /\ d.op = activeSection
        /\ d.doc = currentNoteId
        /\ d.lang = language
        /\ d.content = call.content
        /\ d.upTo < call.run

\* C8, for one step: the run whose digest is ready, started after a job
\* for the same section, note, language and text completed, submits nothing
\* and shows the cached result
C8_RunHitsCache ==
    \A call \in calls :
        (DigestDone(call) /\ C8_CompletedBefore(call)) =>
            /\ calls' = calls \ {call}
            /\ timers' = timers
            /\ panel'[currentSectionElement] =
                   apiCache[SectionManager_generateCacheKey(S, call.content)]

\* C8: once a run for (section, note, language, text) has completed, a
\* second run with the same four inputs shows the cached result and issues
\* no network call
C8_SecondRunFromCache == [][C8_RunHitsCache]_vars

\* C9, first half: no job has more than 10 status reads issued
C9_ReadsWithinLimit ==
    \A run \in 1..Len(statusReads) : statusReads[run] <= 10

\* C9, second half, for one step: the timer that follows the 10th
\* non-terminal answer issues no status read and schedules no timer, and the
\* panel shows the timeout
C9_TenthPendingTimesOut ==
    \A timer \in timers :
        (timer.retries = 10 /\ PollTimerFires(timer)) =>
            /\ calls' = calls
            /\ timers' = timers \ {timer}
            /\ panel'[currentSectionElement] = "Job timed out. Please try again."

\* C9: at most 10 status reads are issued for a job; after 10 non-terminal
\* answers the job ends with the timeout and an 11th read is never issued
C9_AtMostTenReads == [](C9_ReadsWithinLimit) /\ [][C9_TenthPendingTimesOut]_vars

\* C9 witness: a job had its 10 status reads, none is outstanding or
\* scheduled any more, and the panel shows the timeout
C9_Witness ==
    /\ \E run \in 1..Len(statusReads) : statusReads[run] = 10
    /\ calls = {}
    /\ timers = {}
    /\ panel[currentSectionElement] = "Job timed out. Please try again."

\* the status read of call returns with a terminal outcome
C10_Delivers(call) ==
    \E outcome \in GetOutcomes(call.op) :
        outcome.status # "pending" /\ GetResponds(call, outcome)

\* C10, for one step: an outcome is written to the panel only while the
\* note and the section the job was submitted for are the current ones
C10_OutcomeOnlyForCurrent ==
    /\ \A call \in calls :
           C10_Delivers(call) => (currentNoteId = call.doc /\ activeSection = call.op)
    /\ \A timer \in timers :
           (timer.retries >= 10 /\ PollTimerFires(timer)) =>
               (currentNoteId = timer.doc /\ activeSection = timer.op)

\* C10: the outcome of a job submitted for (note, section) is never
\* rendered into the panel once the current note or section differs
C10_NoStaleOutcome == [][C10_OutcomeOnlyForCurrent]_vars

\* call belongs to a job that was unresolved when a later click started
\* new runs
C11_Superseded(call) ==
    call.kind \in {"get", "timer"} /\ call.run <= 2 * MaxClicks /\ runs > 2 * MaxClicks

\* C11, for one step: a job that was unresolved when handleAiWrite was
\* called again issues no status read, schedules no timer, and when its
\* status read returns or its timer fires it leaves the panel, the cache and
\* the store as they are
C11_EarlierJobStops ==
    \A call \in calls \cup timers :
        C11_Superseded(call) =>
            /\ statusReads'[call.run] = statusReads[call.run]
            /\ \A timer \in timers' \ timers : timer.run # call.run
            /\ call \notin (calls' \cup timers') =>
                   UNCHANGED <<panel, apiCache, pendingWrites>>

\* C11: at most one enrichment run is in flight: a job that is unresolved
\* when a new run is started is superseded and does nothing afterwards
C11_OneRunInFlight == [][C11_EarlierJobStops]_vars

----------------------------------------------------------------------------
(* Claims about the StorageManager *)

\* the keys a reader asks for: the queued ones, the durable ones, and one
\* that was never written
C12_Keys == DOMAIN pendingWrites \cup DOMAIN localStorage \cup {"absent"}

\* C12: getFromLocalStorage(key, default) returns the queued value when a
\* write to key is queued, otherwise the durable value when the durable
\* store holds key, otherwise the default
C12_ReadsPendingThenDurable ==
    \A key \in C12_Keys, d \in C5_Defaults :
        StorageManager_getFromLocalStorage(Store, key, d) =
            IF key \in DOMAIN pendingWrites THEN pendingWrites[key]
            ELSE IF key \in DOMAIN localStorage THEN localStorage[key]
            ELSE d

\* the logged calls on key, in order
C13_CallsOn(key) == SelectSeq(storeLog, LAMBDA e : e.key = key)

\* the latest logged call on key is a write
C13_Written(key) ==
    /\ Len(C13_CallsOn(key)) > 0
    /\ C13_CallsOn(key)[Len(C13_CallsOn(key))].op = "set"

\* C13, for one step: when the timer fires and the flush goes through,
\* every key whose latest call was a write holds the value of that write in
\* localStorage, setItem is called once for such a key (and not at all for
\* another key) however many writes were queued, and pendingWrites is empty
C13_FlushStoresLatest ==
    StoreFlush =>
        /\ \A key \in StoreKeys :
               C13_Written(key) =>
                   /\ key \in DOMAIN localStorage'
                   /\ localStorage'[key] =
                          C13_CallsOn(key)[Len(C13_CallsOn(key))].value
        /\ \A key \in StoreKeys :
               Cardinality({c \in StorageManager_flushWrites_setItems(S) : c.key = key})
                   = IF C13_Written(key) THEN 1 ELSE 0
        /\ pendingWrites' = EmptyMap

\* C13: the flush stores the most recent value of every key written since
\* the previous flush, with one durable set per key, and empties the queue
C13_LastWriteWins == [][C13_FlushStoresLatest]_vars

\* C13 witness: flushes have gone through after writes to both keys, the
\* queue is empty, no timer is scheduled, and localStorage holds the values
C13_Witness ==
    /\ storeLog = <<>>
    /\ pendingWrites = EmptyMap
    /\ ~writeTimeout
    /\ "note-1" \in DOMAIN localStorage
    /\ localStorage["note-1"] = Str("B")
    /\ "note-1-summary" \in DOMAIN localStorage
    /\ localStorage["note-1-summary"] = Str("A")

\* the latest logged call on key is a remove
C14_Removed(key) ==
    /\ Len(C13_CallsOn(key)) > 0
    /\ C13_CallsOn(key)[Len(C13_CallsOn(key))].op = "remove"

\* C14, for one step: removeFromLocalStorage(key) leaves key in neither
\* map, and a timer expiry that follows a remove of key, with a write to key
\* queued before the remove or not, leaves key out of localStorage
C14_RemoveIsImmediate ==
    /\ \A key \in StoreKeys :
           StoreRemove(key) =>
               /\ key \notin DOMAIN pendingWrites'
               /\ key \notin DOMAIN localStorage'
    /\ \A key \in StoreKeys :
           (C14_Removed(key) /\ writeTimeout /\ ~writeTimeout') =>
               key \notin DOMAIN localStorage'

\* C14: a remove deletes the key from the queue and from localStorage at
\* once, and the later flush does not bring the key back
C14_RemoveNotShadowed == [][C14_RemoveIsImmediate]_vars

\* C14 witness: note-1 was written and flushed, written again and removed
\* while that write was queued, and is in neither map
C14_Witness ==
    /\ Len(storeLog) = 2
    /\ storeLog[1] = StoreCall("set", "note-1", Str("B"))
    /\ storeLog[2] = StoreCall("remove", "note-1", JsNull)
    /\ "note-1" \notin DOMAIN pendingWrites
    /\ "note-1" \notin DOMAIN localStorage
    /\ "note-1-summary" \in DOMAIN localStorage

\* C15, first half, for one step: a timer expiry in which setItem throws
\* leaves pendingWrites empty
C15_FailureClearsQueue ==
    (\E key \in DOMAIN pendingWrites :
        \E written \in SUBSET (DOMAIN pendingWrites) : StoreFlushThrows(key, written))
        => pendingWrites' = EmptyMap

\* C15, second half, for one step: a flush that goes through stores every
\* write that is queued, the writes made after a failed flush included
\* (the log is kept over a failed flush, so its writes are those since the
\* Map was last cleared)
C15_LaterFlushStores ==
    StoreFlush =>
        \A key \in DOMAIN pendingWrites :
            /\ key \in DOMAIN localStorage'
            /\ localStorage'[key] = ToStr(pendingWrites[key])

\* C15: a flush in which a durable set fails still clears the queue, and
\* does not keep later writes from being flushed
C15_FailedFlushDoesNotWedge ==
    [][C15_FailureClearsQueue]_vars /\ [][C15_LaterFlushStores]_vars

----------------------------------------------------------------------------
(* Claims about undo and redo in the editor *)

\* the three content changes, then undo, undo, redo
C16_Script == <<"A", "ABCDEFG", "ABCDEFGHIJKL", "undo", "undo", "redo">>

\* the first n operations of the script are what happened since the page
\* was loaded, and nothing was typed after the last save
C16_Ran(n) == edits = SubSeq(C16_Script, 1, n) /\ ~inputTimer

\* the history of the current tab
C16_History == tabHistories[tabs[currentTabIndex + 1].id]

\* C16 as stated: after "A", "ABCDEFG", "ABCDEFGHIJKL" were saved in this
\* order on a fresh tab, undo, undo, redo ends on the second text: the
\* redo returns "ABCDEFG"
C16_RedoGivesSecond ==
    C16_Ran(6) => (noteText = "ABCDEFG" /\ C16_History.current = "ABCDEFG")

\* C16, amended: the third change (7 to 12 characters, a length delta of 5)
\* is not recorded on its own, so past holds "A" alone; the first undo
\* returns "A", the second undo returns null and changes nothing, and the
\* redo returns "ABCDEFGHIJKL"
C16_RedoGivesThird ==
    /\ C16_Ran(3) => (C16_History.past = <<"A">> /\ C16_History.current = "ABCDEFGHIJKL")
    /\ C16_Ran(4) => (noteText = "A" /\ C16_History.past = <<>>)
    /\ C16_Ran(5) => (noteText = "A" /\ C16_History.future = <<"ABCDEFGHIJKL">>)
    /\ C16_Ran(6) => (noteText = "ABCDEFGHIJKL"
                         /\ C16_History.current = "ABCDEFGHIJKL"
                         /\ C16_History.past = <<"A">>
                         /\ C16_History.future = <<>>)

\* C16 witness: the whole script has run
C16_Witness == C16_Ran(6) /\ noteText = "ABCDEFGHIJKL"

----------------------------------------------------------------------------
(* Claims about the errors of an enrichment run *)

\* what an enrichment error must leave alone: the tab list, the current
\* index, every history, the cache and the stored entries
C17_Kept == <<tabs, currentTabIndex, tabHistories, apiCache, pendingWrites, localStorage>>

\* C17, for one step: the step in which a run ends in an error (the POST
\* throws, the job has failed, the status read throws, or the retries are
\* used up) changes none of these, and neither does any earlier step of
\* such a run (the click, the digest without a cache hit, the accepted
\* POST, a non-terminal status read, a polling timer)
C17_ErrorStepKeeps ==
    /\ \A call \in calls :
           (PostResponds(call, "error") \/ PostResponds(call, "accepted"))
               => UNCHANGED C17_Kept
    /\ \A call \in calls : \A outcome \in GetOutcomes(call.op) :
           (outcome.status \in {"failed", "error", "pending"} /\ GetResponds(call, outcome))
               => UNCHANGED C17_Kept
    /\ \A timer \in timers : PollTimerFires(timer) => UNCHANGED C17_Kept
    /\ \A call \in calls :
           (DigestDone(call)
               /\ ~SectionManager_cacheHit(S, SectionManager_generateCacheKey(S, call.content)))
               => UNCHANGED C17_Kept
    /\ HandleAiWriteIdle(MaxClicks) => UNCHANGED C17_Kept

\* C17: a run that ends in an error changes no tab, no history, no cache
\* entry and no stored entry
C17_ErrorsAreLocal == [][C17_ErrorStepKeeps]_vars

\* C17 witness: one run of the click has completed, its result is cached
\* and stored, and the other run has then ended with a failed status read:
\* the panel shows the error, the cache and the store hold the result
C17_Witness ==
    /\ done # {}
    /\ calls = {}
    /\ timers = {}
    /\ panel[currentSectionElement] = "Polling failed: failed"
    /\ DOMAIN apiCache # {}
    /\ StorageManager_getFromLocalStorage(Store, "note-1-summary", Str("")) = Str("R")

\* C18, for one step: when the POST returns without a status url, or
\* throws, the panel does not stay on "Loading..." (after a throw it shows
\* the error), no status read is issued and no timer is scheduled
C18_NoJobShowsError ==
    \A call \in calls : \A outcome \in {"direct", "error"} :
        PostResponds(call, outcome) =>
            /\ panel'[currentSectionElement] # "Loading..."
            /\ outcome = "error" => panel'[currentSectionElement] = "Error: failed"
            /\ calls' = calls \ {call}
            /\ timers' = timers
            /\ statusReads' = statusReads

\* C18: a submission that gives no polling handle ends with an error
\* message in the panel and creates no job
C18_SubmissionFailureShown == [][C18_NoJobShowsError]_vars

----------------------------------------------------------------------------
(* Claims about switching the section and the note *)

\* a reloaded page: the tab bar and the section buttons, while the runs of
\* a click submit their jobs and wait for the answer to the first status read
BrowseNext ==
    \/ HandleAiWriteIdle(MaxClicks)
    \/ \E call \in calls : DigestDone(call)
    \/ \E call \in calls : PostResponds(call, "accepted")
    \/ TabActions
    \/ \E section \in CacheSections : SwitchSection(section)

SpecBrowse == InitReturning /\ [][BrowseNext]_vars

\* C19, for one step: a click on the tab bar (createNewTab, switchTab and
\* closeTab, each of which ends in setNoteId) and switchSection issue no
\* POST and no status read and schedule no polling timer; a step in which
\* a POST or a status read is issued is a step of handleAiWrite or of the
\* polling it started
C19_SwitchIssuesNoCall ==
    /\ (TabActions \/ \E section \in SectionSet : SwitchSection(section))
           => UNCHANGED <<calls, timers, statusReads, runs>>
    /\ (\E call \in calls' \ calls : call.kind \in {"post", "get"})
           => \/ \E call \in calls : DigestDone(call) \/ PostResponds(call, "accepted")
              \/ \E timer \in timers : PollTimerFires(timer)

\* C19: switching the section or the note never issues a network call
C19_NoImplicitCall == [][C19_SwitchIssuesNoCall]_vars

\* C19 witness: while a status read of the job submitted for note-1 is
\* outstanding, a second tab was made and is the current one
C19_Witness ==
    /\ Len(tabs) = 2
    /\ currentTabIndex = 1
    /\ currentNoteId = tabs[2].id
    /\ \E call \in calls : call.kind = "get" /\ call.doc = "note-1" /\ call.doc # currentNoteId

\* the sections the user moves between while reading results
ReloadSections == {"summary", "keywords"}

\* a reloaded page with one tab: clicks that follow one another, the user
\* typing into the panel, and the section buttons
ReloadNext ==
    \/ HandleAiWriteIdle(MaxClicks)
    \/ RunSteps
    \/ GetRespondsSoon
    \/ \E t \in PanelTexts : PanelInput(t)
    \/ \E section \in ReloadSections : SwitchSection(section)

SpecReload == InitReturning /\ [][ReloadNext]_vars

\* the cache key of the pair that is active after a step, for the text of
\* the note after the step
C20_CacheKey ==
    activeSection' \o "-" \o currentNoteId' \o "-" \o Hash16(Trim(noteText')) \o "-"
        \o (IF activeSection' = "translation" THEN language' ELSE "")

\* the persisted result key of the pair that is active after a step
C20_StoreKey ==
    currentNoteId' \o "-" \o activeSection'
        \o (IF activeSection' = "translation" THEN "-" \o language' ELSE "")

\* the result the store holds for the pair after a step: the pending write
\* first, then the durable entry, blank when there is neither
C20_Persisted ==
    IF C20_StoreKey \in DOMAIN pendingWrites' THEN pendingWrites'[C20_StoreKey].str
    ELSE IF C20_StoreKey \in DOMAIN localStorage' THEN localStorage'[C20_StoreKey].str
    ELSE ""

\* C20, for one step: after switchSection the panel of the new section shows
\* the entry the volatile cache holds for the new pair, when it holds one,
\* and otherwise what the persisted result key holds, blank when neither
\* holds a result
C20_SwitchShowsCacheFirst ==
    (\E section \in SectionSet : SwitchSection(section))
        => panel'[activeSection'] =
               IF C20_CacheKey \in DOMAIN apiCache'
               THEN apiCache'[C20_CacheKey]
               ELSE C20_Persisted

\* C20: a switch of the section reloads the panel from the volatile cache,
\* falling back to the persisted result key
C20_ReloadsCacheThenStore == [][C20_SwitchShowsCacheFirst]_vars

----------------------------------------------------------------------------
(* Claims about pushState, undo and redo *)

\* C24, for one step: an undo or redo that returns a state sets
\* isNavigating; a pushState that finds isNavigating set clears it and
\* leaves past, current and future as they are; a pushState that finds it
\* clear is processed: current becomes the pushed text and the flag stays
\* clear, so only one call is swallowed
C24_NextPushSwallowed ==
    /\ ((HUndo \/ HRedo) /\ hmRet' # Null) => hm'.isNavigating
    /\ \A t \in HistoryTexts :
          HPush(t) =>
              IF hm.isNavigating
              THEN /\ ~hm'.isNavigating
                   /\ hm'.past = hm.past
                   /\ hm'.current = hm.current
                   /\ hm'.future = hm.future
              ELSE /\ ~hm'.isNavigating
                   /\ hm'.current = t

\* C24: after an undo or redo that returned a state the next pushState
\* records nothing, and the one after it is processed normally
C24_SuppressesOnePush == [][C24_NextPushSwallowed]_vars

\* C24 witness: a pushState after an undo was swallowed (future is still
\* there although the flag is clear: a processed pushState empties future)
C24_Witness ==
    /\ ~hm.isNavigating
    /\ hm.future # <<>>
    /\ hmRet # Null
    /\ hmCalls >= 3

\* C25, for one step: a pushState(t) that finds isNavigating clear puts the
\* old current on top of past exactly when the old current is not empty,
\* differs from t and differs from it in length by more than 5, and leaves
\* past alone otherwise; it sets current to t and empties future, so that
\* redo() returns null
C25_PushRecordsByRule ==
    \A t \in HistoryTexts :
        (HPush(t) /\ ~hm.isNavigating) =>
            /\ hm'.past = IF /\ hm.current # ""
                             /\ hm.current # t
                             /\ Abs(Len(hm.current) - Len(t)) > 5
                          THEN Append(hm.past, hm.current)
                          ELSE hm.past
            /\ hm'.current = t
            /\ hm'.future = <<>>
            /\ HistoryManager_redo(hm').ret = Null
            /\ HistoryManager_redo(hm').h = hm'

\* C25: a non-suppressed pushState records the old current by the rule, sets
\* current and empties future
C25_FreshEditRule == [][C25_PushRecordsByRule]_vars

\* C25 witness: after an undo emptied past and filled future, a processed
\* pushState emptied future without recording (a redo would have filled
\* past)
C25_Witness ==
    /\ hmRet # Null
    /\ hm.past = <<>>
    /\ hm.future = <<>>
    /\ ~hm.isNavigating
    /\ hm.current # ""

\* C26, for one step: Ctrl+Z on a history whose past is empty and Ctrl+Y on
\* one whose future is empty change neither the history (past, future,
\* current, isNavigating) nor the text in the editor
C26_EmptyNavigationKeeps ==
    /\ (EditUndo /\ C16_History.past = <<>>)
           => (tabHistories' = tabHistories /\ noteText' = noteText)
    /\ (EditRedo /\ C16_History.future = <<>>)
           => (tabHistories' = tabHistories /\ noteText' = noteText)

\* C26, the consequence: after "A" was saved, an undo and a redo that had
\* nothing to return do not keep the next save from being recorded
C26_NextPushRecorded ==
    (edits = <<"A", "undo", "redo", "ABCDEFG">> /\ ~inputTimer)
        => (C16_History.past = <<"A">> /\ C16_History.current = "ABCDEFG")

\* C26: undo() with an empty past and redo() with an empty future return
\* null and change nothing, and the next pushState is still recorded
C26_EmptyUndoRedoNoOp == [](C26_NextPushRecorded) /\ [][C26_EmptyNavigationKeeps]_vars

\* C26 witness: "A" saved, an undo and a redo with nothing to return, then
\* "ABCDEFG" saved
C26_Witness ==
    /\ edits = <<"A", "undo", "redo", "ABCDEFG">>
    /\ ~inputTimer
    /\ noteText = "ABCDEFG"

----------------------------------------------------------------------------
(* Claims about the tabs of the session *)

\* C22: the ids of the tabs of the session are pairwise distinct, whatever
\* tabs were made and closed, two tabs made at the same clock value included
C22_IdsDistinct ==
    \A i, j \in 1..Len(tabs) : i # j => tabs[i].id # tabs[j].id

----------------------------------------------------------------------------
(* Claims about the start of an enrichment run *)

\* texts of the note: blanks alone, and a text
AbortTexts == {"  ", "ABCDEFG"}

\* a key is stored: queued for writing or in localStorage
HasApiKey == "apiKey" \in DOMAIN pendingWrites \cup DOMAIN localStorage

\* number of clicks on aiWriteButton that are explored
MaxLoggedClicks == 2

\* the click on aiWriteButton; the log of operations gets the text the
\* click found in the note.  MaxClicks clicks at most start runs, each
\* while no call and no timer is outstanding.
ClickLogged ==
    /\ Len(edits) < MaxLoggedClicks
    /\ \/ runs < 2 * MaxClicks /\ calls = {} /\ timers = {}
       \/ Trim(noteText) = ""
       \/ ~HasApiKey
    /\ RunsScripted(LAMBDA s : AiWriteButton_click(s), Append(edits, noteText))

\* a first load: the user types, saves a key and clicks, with or without a
\* key and a text, while the runs of earlier clicks go on
AbortNext ==
    \/ \E t \in AbortTexts : TypeNote(t)
    \/ \E k \in ApiKeys : SaveApiKey(k)
    \/ ClickLogged
    \/ RunSteps
    \/ GetRespondsSoon

SpecAbort == Init /\ [][AbortNext]_vars

\* C23, for one step: a click on aiWriteButton while no key is stored, or
\* while the note is empty once trimmed, issues no call, starts no run and
\* schedules no timer, and leaves the cache, the queued writes, localStorage
\* and the panels as they are
C23_AbortedClickKeeps ==
    (ClickLogged /\ (~HasApiKey \/ Trim(noteText) = ""))
        => /\ UNCHANGED <<calls, runs, statusReads, apiCache, pendingWrites,
                          localStorage, panel>>
           /\ timers' \subseteq timers

\* C23: handleAiWrite without a stored key or with an empty note aborts
\* without a network call, without a job and without a change to the cache
\* or to a persisted result
C23_AbortIsClean == [][C23_AbortedClickKeeps]_vars

\* C23 witness: a click found the text and started its two runs, a second
\* click found the note blank, and calls of the runs are outstanding
C23_Witness ==
    /\ edits = <<"ABCDEFG", "  ">>
    /\ runs = 2
    /\ noteText = "  "
    /\ calls # {}

\* C27, for one step: closeTab(index) on more than one tab takes the tab out
\* of the list; if it was the current tab the current index stays at index
\* when a tab is left there and becomes the last index otherwise; if it
\* stood before the current tab the current index goes down by one; if it
\* stood after it the index is unchanged.  In the last two cases the tab
\* that was current is still the current one.
C27_CloseResolvesIndex ==
    \A index \in 0..(Len(tabs) - 1) :
        (Len(tabs) > 1 /\ Len(tabs') < Len(tabs) /\ CloseTab(index)) =>
            /\ tabs' = SubSeq(tabs, 1, index) \o SubSeq(tabs, index + 2, Len(tabs))
            /\ currentTabIndex' =
                   IF index = currentTabIndex
                   THEN IF index <= Len(tabs) - 2 THEN index ELSE Len(tabs) - 2
                   ELSE IF index < currentTabIndex THEN currentTabIndex - 1
                   ELSE currentTabIndex
            /\ index # currentTabIndex
                   => /\ tabs'[currentTabIndex' + 1] = tabs[currentTabIndex + 1]
                      /\ noteText' = noteText

\* C27: closeTab resolves the current index by the position of the closed
\* tab, and closing another tab than the current one leaves the current
\* tab current
C27_CloseKeepsActive == [][C27_CloseResolvesIndex]_vars

\* C27 witness: text was typed into the second tab and the first tab was
\* closed: the second tab is the only one, at index 0, with its text
C27_Witness ==
    /\ Len(tabs) = 1
    /\ tabs[1].title = "Note 2"
    /\ currentTabIndex = 0
    /\ noteText = "ABCDEFG"
    /\ "note-1" \notin DOMAIN tabHistories

\* the tab bar, the editor and the panel the user types into
CloseNext ==
    \/ TabActions
    \/ FlushTimerFires
    \/ \E t \in SessionTexts : TypeNote(t)
    \/ InputTimerFires
    \/ \E t \in PanelTexts : PanelInput(t)

SpecClose == Init /\ [][CloseNext]_vars

\* what the store holds under key before a step: the queued write first,
\* then the durable entry, the empty text when there is neither
C28_Stored(key) ==
    IF key \in DOMAIN pendingWrites THEN pendingWrites[key].str
    ELSE IF key \in DOMAIN localStorage THEN localStorage[key].str
    ELSE ""

\* the result key of the tab id for the section that is open
C28_ResultKey(id) ==
    id \o "-" \o activeSection
        \o (IF activeSection = "translation" THEN "-" \o language ELSE "")

\* C28, for one step: closeTab of the current tab ends with the tab at the
\* resolved index loaded, also when that index is the index of the closed
\* tab: the editor holds the stored text of that tab, the SectionManager
\* holds its id, and the open panel holds the result stored for that tab,
\* the empty text when none is stored
C28_CloseActiveReloads ==
    \A index \in 0..(Len(tabs) - 1) :
        (Len(tabs) > 1 /\ Len(tabs') < Len(tabs) /\ index = currentTabIndex
                       /\ CloseTab(index)) =>
            /\ currentNoteId' = tabs'[currentTabIndex' + 1].id
            /\ noteText' = C28_Stored(currentNoteId')
            /\ panel'[activeSection] = C28_Stored(C28_ResultKey(currentNoteId'))

\* C28: closing the current tab switches in full to the resolved index
C28_CloseActiveSwitches == [][C28_CloseActiveReloads]_vars

\* C28 on sessions whose ids are pairwise distinct: the violations of
\* C28_CloseActiveSwitches all start from two tabs that share an id
C28_DistinctIdsReload == [][C22_IdsDistinct => C28_CloseActiveReloads]_vars

----------------------------------------------------------------------------
(* Claims about leaving a tab *)

\* the tab bar without the close buttons, the editor, Ctrl+Z and Ctrl+Y
SwitchNext ==
    \/ CreateNewTab
    \/ \E index \in 0..(Len(tabs) - 1) : SwitchTab(index)
    \/ \E t \in FillTexts : TypeNote(t)
    \/ InputTimerFires
    \/ Undo
    \/ Redo

SpecSwitch == Init /\ [][SwitchNext]_vars

\* the id of the current tab before a step
C29_Outgoing == tabs[currentTabIndex + 1].id

\* C29, for one step: when switchTab or createNewTab makes another tab
\* current, the text the editor held is queued in the store under the id of
\* the tab that was current, and pushState was called with it on the
\* history of that tab (once by switchTab; twice by createNewTab, which
\* saves before it makes the tab and again in its switchTab); nothing of the
\* incoming tab is in what was saved.  The history is compared when the
\* incoming tab has another id than the outgoing one.
C29_OutgoingSavedFirst ==
    (/\ currentTabIndex' # currentTabIndex
     /\ CreateNewTab \/ \E index \in 0..(Len(tabs) - 1) : SwitchTab(index))
        => /\ C29_Outgoing \in DOMAIN pendingWrites'
           /\ pendingWrites'[C29_Outgoing] = Str(noteText)
           /\ currentNoteId' # C29_Outgoing =>
                 tabHistories'[C29_Outgoing] =
                     IF Len(tabs') > Len(tabs)
                     THEN HistoryManager_pushState(
                              HistoryManager_pushState(tabHistories[C29_Outgoing], noteText),
                              noteText)
                     ELSE HistoryManager_pushState(tabHistories[C29_Outgoing], noteText)

\* C29: switchTab and createNewTab save the editor text under the outgoing
\* tab, in the store and in its history, before the current index moves
C29_SaveBeforeSwitch == [][C29_OutgoingSavedFirst]_vars

\* C29 witness: text typed into the first tab and not yet saved by the
\* debounce was saved by the switch to the second tab
C29_Witness ==
    /\ Len(tabs) = 2
    /\ currentTabIndex = 1
    /\ tabs[1].id # tabs[2].id
    /\ inputTimer
    /\ noteText = ""
    /\ tabs[1].id \in DOMAIN pendingWrites
    /\ pendingWrites[tabs[1].id] = Str("ABCDEFG")
    /\ tabHistories[tabs[1].id].current = "ABCDEFG"

----------------------------------------------------------------------------
(* Claims about a refresh of the page *)

\* the page is refreshed: the Map of queued writes, the timers and every
\* object are gone, and new NoteApp() (the DOMContentLoaded listener, lines
\* 2335-2337) runs on what localStorage holds; the clock has advanced, or not
Refresh ==
    \E c \in {now, now + 1} :
        /\ c <= MaxClock
        /\ Runs(LAMBDA s : NoteApp_constructor(s.localStorage, c))

\* the 100 ms timer fires and localStorage.setItem throws for the entry
\* of currentTabIndex, after the tab list was stored (saveTabsToStorage
\* sets the two keys in this order); of the content keys any may have been
\* visited before
IndexWriteThrows ==
    /\ {"tabs", "currentTabIndex"} \subseteq DOMAIN pendingWrites
    /\ \E written \in SUBSET (DOMAIN pendingWrites \ {"currentTabIndex"}) :
          /\ "tabs" \in written
          /\ StoreFlushThrows("currentTabIndex", written)

\* the tab bar, the editor with its debounce, the flush timer, and the
\* refresh of the page at any moment
RefreshNext ==
    \/ TabActions
    \/ \E t \in SessionTexts : TypeNote(t)
    \/ InputTimerFires
    \/ FlushTimerFires
    \/ Refresh

SpecRefresh == Init /\ [][RefreshNext]_vars

\* a first load, or a page reloaded on a stored tab with its text: the tab
\* bar, the flush timer, whose flush goes through or is cut short at the
\* index, and the refresh of the page at any moment
RestoreNext ==
    \/ TabActions
    \/ FlushTimerFires
    \/ IndexWriteThrows
    \/ Refresh

SpecRestore == (Init \/ InitReturning) /\ [][RestoreNext]_vars

\* C21, for one step: a refresh while the current tab shows a text leaves a
\* session that holds this tab, with this text as its content
C21_RefreshKeepsText ==
    (Refresh /\ noteText # "")
        => /\ \E i \in 1..Len(tabs') : tabs'[i].id = tabs[currentTabIndex + 1].id
           /\ tabHistories'[tabs[currentTabIndex + 1].id].current = noteText

\* C21: the text typed into a tab is there after a refresh of the page,
\* whenever the refresh happens
C21_NotesSurviveRefresh == [][C21_RefreshKeepsText]_vars

\* what localStorage holds under key, the empty text when nothing
C30_Persisted(key) ==
    IF key \in DOMAIN localStorage THEN localStorage[key].str ELSE ""

\* the index localStorage holds, if it is an index of the list ts, else 0
C30_Index(ts) ==
    IF /\ "currentTabIndex" \in DOMAIN localStorage
       /\ \E n \in 0..(Len(ts) - 1) : localStorage["currentTabIndex"] = Str(ToString(n))
    THEN CHOOSE n \in 0..(Len(ts) - 1) : localStorage["currentTabIndex"] = Str(ToString(n))
    ELSE 0

\* C30, for one step: new NoteApp() on a localStorage that holds a tab list
\* leaves this list as the tabs, a history for every tab whose current is
\* the content localStorage holds for the tab and whose past and future are
\* empty, and as the current index the stored index if it is an index of
\* the list and 0 otherwise, with the editor showing that tab; on a
\* localStorage without a tab list it leaves one tab, made by createNewTab
\* at the clock value of the load, which is the current one
C30_ConstructorRestores ==
    Refresh =>
        IF "tabs" \in DOMAIN localStorage
        THEN /\ tabs' = localStorage["tabs"].json
             /\ DOMAIN tabHistories' = {tabs'[i].id : i \in 1..Len(tabs')}
             /\ \A id \in DOMAIN tabHistories' :
                   tabHistories'[id] = [HistoryManager_new EXCEPT
                                           !.current = C30_Persisted(id)]
             /\ currentTabIndex' = C30_Index(tabs')
             /\ currentNoteId' = tabs'[currentTabIndex' + 1].id
             /\ noteText' = C30_Persisted(currentNoteId')
        ELSE /\ Len(tabs') = 1
             /\ currentTabIndex' = 0
             /\ tabs'[1] = [id |-> "note-" \o ToString(now'), title |-> "Note 1"]
             /\ DOMAIN tabHistories' = {tabs'[1].id}
             /\ tabHistories'[tabs'[1].id].past = <<>>
             /\ tabHistories'[tabs'[1].id].future = <<>>
             /\ currentNoteId' = tabs'[1].id

\* C30: the constructor restores the persisted tab list, contents and
\* index, and makes one new tab when no list is persisted
C30_InitRestores == [][C30_ConstructorRestores]_vars

\* C30 witness: a page refreshed on a stored list of two tabs with the
\* second one current, the first one holding a text
C30_Witness ==
    /\ Len(tabs) = 2
    /\ currentTabIndex = 1
    /\ pendingWrites = [k \in {"tabs", "currentTabIndex"} |->
                           IF k = "tabs" THEN Json(tabs) ELSE Num(1)]
    /\ writeTimeout
    /\ ~inputTimer
    /\ tabHistories[tabs[1].id] = [HistoryManager_new EXCEPT !.current = "ABCDEFG"]
    /\ tabs[1].id # tabs[2].id
    /\ localStorage["tabs"] = Json(tabs)
    /\ localStorage["currentTabIndex"] = Str("1")

----------------------------------------------------------------------------
(* Claims about the end of a job *)

\* a status read is outstanding, or a polling timer is scheduled, for the
\* job of run among cs
C31_Polled(run, cs) ==
    \E c \in cs : c.run = run /\ c.kind \in {"get", "timer"}

\* C31, for the step of the answer: a status read that returns completed,
\* success or failed, or that throws, issues no status read and schedules no
\* timer, and leaves none behind for its job
C31_TerminalReadEnds ==
    \A call \in calls : \A outcome \in GetOutcomes(call.op) :
        (outcome.status # "pending" /\ GetResponds(call, outcome)) =>
            /\ statusReads' = statusReads
            /\ timers' = timers
            /\ ~C31_Polled(call.run, calls' \cup timers')

\* C31, for every later step: a job that has had a status read and has
\* none outstanding and no timer scheduled gets no further read and no timer
C31_EndedStaysEnded ==
    \A run \in 1..Len(statusReads) :
        (statusReads[run] > 0 /\ ~C31_Polled(run, calls \cup timers)) =>
            /\ statusReads'[run] = statusReads[run]
            /\ ~C31_Polled(run, calls' \cup timers')

\* C31: after a status read of a job returned a completed, success or
\* failed status, or threw, no status read is issued for the job and no
\* polling timer is scheduled for it
C31_TerminalStatusStops == [][C31_TerminalReadEnds /\ C31_EndedStaysEnded]_vars

\* C31 witness: the first job of the click has failed at its first status
\* read and is polled no more, while the second job, answered pending, has
\* its second status read outstanding
C31_Witness ==
    /\ Len(statusReads) = 2
    /\ statusReads[1] = 1
    /\ statusReads[2] = 2
    /\ ~C31_Polled(1, calls \cup timers)
    /\ \E call \in calls : call.run = 2 /\ call.kind = "get" /\ call.retries = 1
    /\ timers = {}
    /\ panel[currentSectionElement] = "Job failed: Unknown error"

\* the result key of the note and the section a job was submitted for
C32_ResultKey(call) ==
    IF call.op = "translation"
    THEN call.doc \o "-" \o call.op \o "-" \o call.lang
    ELSE call.doc \o "-" \o call.op

\* C32, for one step: when the status read of a job returns completed or
\* success, the text taken from the payload field of the section the job
\* was submitted for is put in the cache under the job's cache key and in
\* the store under the result key of the note and section of the job
C32_CompletionStoresForJob ==
    \A call \in calls : \A outcome \in GetOutcomes(call.op) :
        (outcome.status \in {"completed", "success"} /\ GetResponds(call, outcome)) =>
            /\ call.cacheKey \in DOMAIN apiCache'
            /\ apiCache'[call.cacheKey] = FinalResult(call.op, outcome.payload)
            /\ StorageManager_getFromLocalStorage(Store', C32_ResultKey(call), JsNull)
                   = Str(FinalResult(call.op, outcome.payload))

\* C32: the result of a completed job is read from the field of the
\* job's own section and stored under the job's own note and section,
\* whatever note and section are current when the job completes
C32_ResultStoredForJob == [][C32_CompletionStoresForJob]_vars

----------------------------------------------------------------------------
(* Claims about the note the SectionManager works for *)

\* the click on addTabBtn while MaxTabs tabs are open
CreateOneMoreTab ==
    /\ Len(tabs) = MaxTabs
    /\ \E c \in {now, now + 1} :
          /\ c <= MaxClock
          /\ Runs(LAMBDA s : TabManager_createNewTab([s EXCEPT !.now = c], c))

\* the tab bar, with one tab more
NoteIdNext ==
    \/ TabActions
    \/ CreateOneMoreTab

SpecNoteId == Init /\ [][NoteIdNext]_vars

\* the SectionManager's note id is the id of the tab at the current index
C33_NoteIdOfCurrentTab ==
    /\ currentTabIndex \in 0..(Len(tabs) - 1)
    /\ currentNoteId = tabs[currentTabIndex + 1].id

\* C33, for one step: createNewTab, switchTab and closeTab, when they
\* return without an exception, leave the SectionManager with the id of
\* the current tab
C33_CompletedStepSetsNoteId ==
    /\ \A c \in {now, now + 1} :
           (/\ Len(tabs') > Len(tabs)
            /\ now' = c
            /\ ~TabManager_createNewTab([S EXCEPT !.now = c], c).threw)
               => C33_NoteIdOfCurrentTab'
    /\ \A index \in 0..(Len(tabs) - 1) :
           (/\ Len(tabs') = Len(tabs)
            /\ currentTabIndex' = index
            /\ SwitchTab(index)
            /\ ~TabManager_switchTab(S, index).threw)
               => C33_NoteIdOfCurrentTab'
    /\ \A index \in 0..(Len(tabs) - 1) :
           (/\ Len(tabs') < Len(tabs)
            /\ CloseTab(index)
            /\ ~TabManager_closeTab(S, index).threw)
               => C33_NoteIdOfCurrentTab'

\* C33, for the rename of a tab
C33_RenameKeepsNoteId ==
    \A e \in 1..Len(tabElements), input \in RenameInputs :
        (/\ Len(tabs') = Len(tabs)
         /\ currentTabIndex' = currentTabIndex
         /\ Rename(e, input))
            => (C33_NoteIdOfCurrentTab => C33_NoteIdOfCurrentTab')

\* C33: after the initialization and after every createNewTab, switchTab,
\* closeTab or rename that has returned, the SectionManager's note id is
\* the id of the tab at the current index
C33_NoteIdFollowsTab ==
    /\ C33_NoteIdOfCurrentTab
    /\ [][C33_CompletedStepSetsNoteId /\ C33_RenameKeepsNoteId]_vars

----------------------------------------------------------------------------
(* Claims about the timer of the StorageManager *)

\* the store alone, when every localStorage.setItem goes through
StoreLiveNext ==
    \/ \E key \in StoreKeys, value \in StoreValues : StoreWrite(key, value)
    \/ \E key \in StoreKeys : StoreRemove(key)
    \/ StoreFlush

\* the timer set by setTimeout (line 1267) fires unless it is cleared
SpecStoreLive == Init /\ [][StoreLiveNext]_vars /\ WF_vars(StoreFlush)

\* value is queued under key
C34_Queued(key, value) ==
    key \in DOMAIN pendingWrites /\ pendingWrites[key] = value

\* the timer has fired: the queue is empty, no timer is left, and
\* localStorage holds value under key
C34_Flushed(key, value) ==
    /\ pendingWrites = EmptyMap
    /\ ~writeTimeout
    /\ key \in DOMAIN localStorage
    /\ localStorage[key] = ToStr(value)

\* another value was written under key, or key was removed, before the
\* timer fired
C34_Overtaken(key, value) ==
    \/ key \in DOMAIN pendingWrites /\ pendingWrites[key] # value
    \/ C14_Removed(key)

\* C34: a value written under a key is in localStorage, with the queue
\* empty, once the timer that the last write left has fired, unless the key
\* was written again or removed in between
C34_WriteIsFlushed ==
    /\ \A key \in StoreKeys, value \in StoreValues :
           C34_Queued(key, value) ~> (C34_Flushed(key, value) \/ C34_Overtaken(key, value))
    /\ [](pendingWrites # EmptyMap => writeTimeout)
    /\ [][\A key \in StoreKeys, value \in StoreValues :
              StoreWrite(key, value) => writeTimeout']_vars

\* C34 witness: values were written under both keys, the timer has fired,
\* and localStorage holds the values with nothing queued and no timer left
C34_Witness ==
    /\ storeLog = <<>>
    /\ pendingWrites = EmptyMap
    /\ ~writeTimeout
    /\ "note-1" \in DOMAIN localStorage
    /\ localStorage["note-1"] = Str("A")
    /\ "note-1-summary" \in DOMAIN localStorage
    /\ localStorage["note-1-summary"] = Str("B")
    /\ "tabs" \in DOMAIN localStorage

----------------------------------------------------------------------------
(* Claims about the text of a tab that is left and shown again *)

\* C35, for one step: when switchTab leaves a tab whose text is in the
\* editor, a switchTab back to that tab puts the same text in the editor
\* (the tabs have distinct ids, so that no other tab shares its history)
C35_LeftTextComesBack ==
    \A index \in 0..(Len(tabs) - 1) :
        (/\ currentTabIndex \in 0..(Len(tabs) - 1)
         /\ C22_IdsDistinct
         /\ index # currentTabIndex
         /\ Len(tabs') = Len(tabs)
         /\ currentTabIndex' = index
         /\ SwitchTab(index))
            => TabManager_switchTab(S', currentTabIndex).noteText = noteText

\* C35: switching to another tab and back keeps the text of the tab,
\* after any edits, undos and redos, an undo or redo after which no
\* pushState has run yet included
C35_SwitchBackKeepsText == [][C35_LeftTextComesBack]_vars

----------------------------------------------------------------------------
(* Claims about what undo and redo leave in the store *)

\* the id of the current tab
C36_CurrentId == tabs[currentTabIndex + 1].id

\* C36, for one step: after an undo or a redo that returned a state, the
\* store read under the id of the current tab gives the text the editor
\* shows (the tabs have distinct ids, so that no other tab shares the
\* history or the stored text)
C36_RestoredTextStored ==
    (/\ currentTabIndex # -1
     /\ C22_IdsDistinct
     /\ C36_CurrentId \in DOMAIN tabHistories
     /\ tabHistories' # tabHistories
     /\ \/ Undo /\ HistoryManager_undo(tabHistories[C36_CurrentId]).ret # Null
        \/ Redo /\ HistoryManager_redo(tabHistories[C36_CurrentId]).ret # Null)
        => StorageManager_getFromLocalStorage(Store', C36_CurrentId, Str(""))
               = Str(noteText')

\* C36: the text restored by an undo or a redo is the text the store
\* holds for the current tab
C36_UndoRedoIsStored == [][C36_RestoredTextStored]_vars

\* C37, for one step: after an undo that returned a state, a redo puts
\* the text of before the undo back into the editor, input events that the
\* debounce has not delivered yet included (the tabs have distinct ids)
C37_RedoGivesTextBack ==
    (/\ currentTabIndex # -1
     /\ C22_IdsDistinct
     /\ C36_CurrentId \in DOMAIN tabHistories
     /\ tabHistories' # tabHistories
     /\ Undo
     /\ HistoryManager_undo(tabHistories[C36_CurrentId]).ret # Null)
        => TabManager_redo(S').noteText = noteText

\* C37: an undo followed by a redo shows the text the editor showed
\* before the undo, whether the debounce had delivered the last input
\* events or not
C37_UndoLosesNoText == [][C37_RedoGivesTextBack]_vars

----------------------------------------------------------------------------
(* Claims about the end of the working indicator *)

\* the steps of the enrichment runs when every POST returns a status url
\* or throws
RunStepsWithJob ==
    \/ \E call \in calls : DigestDone(call)
    \/ \E call \in calls, outcome \in PostOutcomes \ {"direct"} :
           PostResponds(call, outcome)
    \/ \E timer \in timers : PollTimerFires(timer)

\* a first load: the user types, saves a key and clicks, with or without a
\* key and a text, while the runs of earlier clicks go on
AbortLiveNext ==
    \/ \E t \in AbortTexts : TypeNote(t)
    \/ \E k \in ApiKeys : SaveApiKey(k)
    \/ ClickLogged
    \/ RunStepsWithJob
    \/ GetRespondsSoon

\* every call returns and every timer that is not cleared fires
SpecAbortLive ==
    Init /\ [][AbortLiveNext]_vars /\ WF_vars(RunStepsWithJob) /\ WF_vars(GetRespondsSoon)

\* the panel of the open section shows the working indicator of a run
C38_Working ==
    /\ currentSectionElement # Null
    /\ panel[currentSectionElement]
           \in {"Loading...", "Job accepted. Waiting for result..."}

\* the panel of the open section shows something else: a result, an error
\* message or the timeout
C38_Settled ==
    /\ currentSectionElement # Null
    /\ panel[currentSectionElement]
           \notin {"Loading...", "Job accepted. Waiting for result..."}

\* C38: when every call returns and every timer fires, a panel that shows
\* the working indicator comes to show a terminal outcome, whatever clicks
\* on aiWriteButton follow, the ones that stop at a missing key or an empty
\* note included
C38_IndicatorEnds == C38_Working ~> C38_Settled

----------------------------------------------------------------------------
(* Claims about the reads around a flush *)

\* C39, for one step: when the timer fires and flushWrites runs,
\* getFromLocalStorage(key, default) gives after the flush the value it
\* gave before it, for every key and default (a queued number is compared
\* as the string that setItem stores)
C39_ReadsUnchangedByFlush ==
    (writeTimeout /\ ~writeTimeout' /\ FlushTimerFires) =>
        \A key \in C12_Keys, d \in C5_Defaults :
            ToStr(StorageManager_getFromLocalStorage(Store', key, d))
                = ToStr(StorageManager_getFromLocalStorage(Store, key, d))

\* C39: a flush changes the result of no read, a queued empty string
\* included
C39_FlushInvisible == [][C39_ReadsUnchangedByFlush]_vars

----------------------------------------------------------------------------
(* Claims about the size of a history *)

\* the entries of past and future together
C40_Size(h) == Len(h.past) + Len(h.future)

\* C40, for one step: undo and redo leave the number of entries of past
\* and future together as it was
C40_NavigationKeepsSize ==
    (HUndo \/ HRedo) => C40_Size(hm') = C40_Size(hm)

\* C40: past and future together never hold more than 50 entries, so
\* future holds at most 50, and undo and redo keep their sum
C40_TimelineBounded ==
    /\ [](C40_Size(hm) <= maxHistorySize /\ Len(hm.future) <= maxHistorySize)
    /\ [][C40_NavigationKeepsSize]_vars

\* C40 witness: past was full, and undo has moved all its 50 entries to
\* future
C40_Witness ==
    /\ Len(hm.past) = 0
    /\ Len(hm.future) = maxHistorySize
    /\ hm.isNavigating
    /\ hmRet # Null

============================================================================
